---- MODULE Spec2Model ----
(***************************************************************************)
(* Availability engine of backend/availability: the slot calculation of    *)
(* utils.py (rule resolver, slot enumerator, block and booking filters,    *)
(* orchestrator), the dirty-set cache protocol of utils.py, and the write  *)
(* validation of serializers.py.                                           *)
(*                                                                         *)
(* Time.  A time of day is a number of seconds after midnight, a date is a *)
(* day number (day 0 is Monday 2025-01-06), an instant is a number of      *)
(* seconds after 00:00 of day 0 in the organizer's zone.  Every zone of    *)
(* the model has a constant UTC offset over the modelled days (no DST      *)
(* change in January), so datetime.combine(...).replace(tzinfo=tz) and     *)
(* timedelta arithmetic are integer arithmetic on instants.                *)
(*                                                                         *)
(* Requests.  Every request is served by its own worker.  A write request  *)
(* is in flight from the moment its view has loaded the row (update) or    *)
(* its serializer has validated the fields (create) until its save; the    *)
(* requests in flight form a bag, two requests that send the same fields   *)
(* being two requests.  A calculate_available_slots call is one step per   *)
(* database read; the saves of other requests run between those steps.     *)
(* Rows of the tables written through a serializer carry the primary key   *)
(* the database gave them.                                                 *)
(***************************************************************************)
EXTENDS Integers, Sequences, FiniteSets, Bags, TLC

VARIABLES
    rules,             \* AvailabilityRule rows of the organizer (a set)
    overrides,         \* DateOverrideRule rows of the organizer, in table order
    blocked_times,     \* BlockedTime rows of the organizer
    recurring_blocks,  \* RecurringBlockedTime rows of the organizer
    bookings,          \* Booking rows of the organizer
    event_type,        \* the EventType queried
    buffer_settings,   \* the organizer's BufferTime row
    profile,           \* the organizer's profile
    request,           \* arguments of the last calculate_available_slots call
    response,          \* what that call returned (NoResponse before it)
    pc,                \* position inside a running calculate_available_slots
    current_date,      \* utils.py:154 loop variable
    current_time,      \* utils.py:332 loop variable
    enum_end,      \* end of the interval being enumerated
    pending,           \* intervals of current_date not yet enumerated
    emitted,           \* slots appended by the running enumeration (counted)
    to_filter,         \* utils.py:236 potential slots not yet filtered
    available_slots,   \* utils.py:156 all_slots: the slots that passed so far
    to_check,          \* utils.py:440 conflicting bookings not yet looped over
    cache,             \* the cache backend: key -> value and expiry time
    now,               \* time.time() of the cache backend, in seconds
    calls,             \* running mark_cache_dirty / clear_dirty_flags calls
    history,           \* the calls that have returned, in order of return
    in_flight,         \* write requests between get_object and save (a bag)
    interleaved,       \* writes committed while the running call was running
    next_id            \* the next primary key of each table

vars == <<rules, overrides, blocked_times, recurring_blocks, bookings,
          event_type, buffer_settings, profile, request, response, pc, current_date,
          current_time, enum_end, pending, emitted, to_filter,
          available_slots, to_check, cache, now, calls, history,
          in_flight, interleaved, next_id>>

dbVars == <<rules, overrides, blocked_times, recurring_blocks, bookings, next_id>>
filterVars == <<to_filter, available_slots, to_check>>
loopVars == <<pc, current_date, current_time, enum_end, pending, emitted,
              to_filter, available_slots, to_check>>
cacheVars == <<cache, now, calls, history>>
reqVars == <<in_flight, interleaved>>
queryVars == <<event_type, buffer_settings, profile, request, response>>

(***************************************************************************)
(* Bounds of the model.                                                    *)
(***************************************************************************)
MaxDay == 1          \* dates 0..MaxDay
MaxRules == 2        \* AvailabilityRule rows
MaxOverrides == 2    \* DateOverrideRule rows
MaxBookings == 2     \* Booking rows
MaxAttendees == 3    \* EventType.max_attendees is in 1..MaxAttendees
MaxAttendeeCount == 2  \* attendee_count of a request or booking
MaxEmitted == 3      \* slots a list holds; the next append raises MemoryError
NumWorkers == 2      \* request workers that may run cache calls at once
MaxCalls == 3        \* mark_cache_dirty / clear_dirty_flags calls in a run
MaxBlockedTimes == 2 \* BlockedTime rows
MaxRecurring == 2    \* RecurringBlockedTime rows
MaxPending == 2      \* write requests in flight at once
MaxInterleaved == 1  \* writes committed while one call runs
MaxTicks == 2        \* half hours that pass in a run of cache calls

(***************************************************************************)
(* Program constants.                                                      *)
(***************************************************************************)
None == -1                 \* Python's None where the other values are >= 0
SecondsPerMinute == 60
SecondsPerDay == 86400
MinutesPerDay == 1440      \* 24 * 60, utils.py:65
DaysPerWeek == 7
CacheTimeout == 3600       \* timeout=3600, utils.py:695
TickSeconds == 1800        \* the time that passes in one step of the clock

HM(h, m) == h * 3600 + m * SecondsPerMinute
Minutes(n) == n * SecondsPerMinute            \* timedelta(minutes=n)
Dates == 0..MaxDay
Weekday(d) == d % DaysPerWeek                 \* date.weekday(), Monday = 0
Combine(d, t) == d * SecondsPerDay + t        \* datetime.combine(d, t)

\* `a or b` on numbers and None
PyOr(a, b) == IF a = None \/ a = 0 THEN b ELSE a

Max(a, b) == IF a >= b THEN a ELSE b
Min(a, b) == IF a <= b THEN a ELSE b
\* attrs.get(field): None when the request did not send the field
Get(attrs, field) == IF field \in DOMAIN attrs THEN attrs[field] ELSE None
\* ModelSerializer.update: the fields that were sent replace the stored ones
Updated(instance, attrs) ==
    [f \in DOMAIN instance |->
        IF f \in DOMAIN attrs THEN attrs[f] ELSE instance[f]]

\* a stored row: the fields that were written and the primary key
Row(id, attrs) ==
    [f \in DOMAIN attrs \cup {"id"} |-> IF f = "id" THEN id ELSE attrs[f]]
\* queryset.exclude(id=self.instance.id); instance is {} when the serializer
\* has no instance
ExcludeInstance(rows, instance) ==
    {row \in rows : \A inst \in instance : row.id # inst.id}

\* attrs.get(field, default)
GetOr(attrs, field, default) ==
    IF field \in DOMAIN attrs THEN attrs[field] ELSE default
Range(s) == {s[i] : i \in 1..Len(s)}

(***************************************************************************)
(* Time primitives.                                                        *)
(***************************************************************************)
ValidZones == {"UTC", "Asia/Tokyo", "America/New_York"}

validate_timezone(tz) == tz # "" /\ tz \in ValidZones

\* UTC offset of a zone in seconds (constant over the modelled days)
UtcOffset(tz) ==
    CASE tz = "Asia/Tokyo" -> HM(9, 0)
      [] tz = "America/New_York" -> 0 - HM(5, 0)
      [] OTHER -> 0

\* strftime('%H:%M:%S') followed by _time_to_minutes: hours * 60 + minutes,
\* the seconds are dropped
time_to_minutes(t) == (t \div 3600) * 60 + ((t % 3600) \div SecondsPerMinute)

are_time_intervals_overlapping(start1, end1, start2, end2, allow_adjacency) ==
    LET start1_minutes == time_to_minutes(start1)
        start2_minutes == time_to_minutes(start2)
        e1 == time_to_minutes(end1)
        e2 == time_to_minutes(end2)
        end1_minutes == IF e1 < start1_minutes THEN e1 + MinutesPerDay ELSE e1
        end2_minutes == IF e2 < start2_minutes THEN e2 + MinutesPerDay ELSE e2
    IN  IF allow_adjacency
        THEN start1_minutes <= end2_minutes /\ end1_minutes >= start2_minutes
        ELSE start1_minutes < end2_minutes /\ end1_minutes > start2_minutes

(***************************************************************************)
(* Model methods (models.py is not part of the sources; from the data      *)
(* model of the specification).                                            *)
(***************************************************************************)
spans_midnight(row) == row.end_time <= row.start_time

applies_to_event_type(row, et) ==
    row.event_types = {} \/ et.id \in row.event_types

applies_to_date(block, d) ==
    /\ (block.start_date = None \/ block.start_date <= d)
    /\ (block.end_date = None \/ d <= block.end_date)

(***************************************************************************)
(* Rule resolver.                                                          *)
(***************************************************************************)
\* a date and a time of day in zone tz, as an instant
Localize(d, t, tz) == Combine(d, t) - UtcOffset(tz)

\* (start_dt, end_dt) of a rule or override row on target_date
RowInterval(row, target_date, tz) ==
    <<Localize(target_date, row.start_time, tz),
      Localize(target_date, row.end_time, tz)
        + (IF spans_midnight(row) THEN SecondsPerDay ELSE 0)>>

\* sorted(intervals, key=lambda x: x[0]): a stable sort on the start
InsertByStart(sorted, x) ==
    LET k == Cardinality({i \in 1..Len(sorted) : sorted[i][1] <= x[1]})
    IN  SubSeq(sorted, 1, k) \o <<x>> \o SubSeq(sorted, k + 1, Len(sorted))

RECURSIVE SortedByStart(_)
SortedByStart(s) ==
    IF s = <<>> THEN <<>>
    ELSE InsertByStart(SortedByStart(SubSeq(s, 1, Len(s) - 1)), s[Len(s)])

RECURSIVE MergeFold(_, _)
MergeFold(merged, rest) ==
    IF rest = <<>> THEN merged
    ELSE LET cur == Head(rest)
             last == merged[Len(merged)]
         IN  IF cur[1] <= last[2]
             THEN MergeFold([merged EXCEPT ![Len(merged)] =
                                <<last[1], Max(last[2], cur[2])>>], Tail(rest))
             ELSE MergeFold(Append(merged, cur), Tail(rest))

merge_overlapping_intervals(intervals) ==
    IF intervals = <<>> THEN <<>>
    ELSE LET sorted_intervals == SortedByStart(intervals)
         IN  MergeFold(<<Head(sorted_intervals)>>, Tail(sorted_intervals))

\* the rows of a set in some order (a queryset without order_by)
RECURSIVE SeqOfSet(_)
SeqOfSet(S) ==
    IF S = {} THEN <<>>
    ELSE LET x == CHOOSE y \in S : TRUE IN <<x>> \o SeqOfSet(S \ {x})

RECURSIVE MapIntervals(_, _, _)
MapIntervals(rows, target_date, tz) ==
    IF rows = <<>> THEN <<>>
    ELSE <<RowInterval(Head(rows), target_date, tz)>>
            \o MapIntervals(Tail(rows), target_date, tz)

\* utils.py:257-267
ApplicableOverrides(et, target_date) ==
    SelectSeq(overrides, LAMBDA o : /\ o.date = target_date
                                    /\ o.is_active
                                    /\ applies_to_event_type(o, et))

\* utils.py:290-301
ApplicableRules(et, target_date) ==
    {r \in rules : /\ r.day_of_week = Weekday(target_date)
                   /\ r.is_active
                   /\ applies_to_event_type(r, et)}

\* a resolver that adds the overrides' windows to the recurring rules'
\* instead of replacing them
get_daily_available_intervals_adding(et, target_date, organizer_timezone) ==
    merge_overlapping_intervals(
        MapIntervals(
            SelectSeq(ApplicableOverrides(et, target_date),
                      LAMBDA o : /\ o.is_available
                                 /\ o.start_time # None
                                 /\ o.end_time # None),
            target_date, organizer_timezone)
        \o MapIntervals(SeqOfSet(ApplicableRules(et, target_date)),
                        target_date, organizer_timezone))

\* utils.py:289-321: the branch taken when no override applies
rule_intervals(et, target_date, organizer_timezone) ==
    merge_overlapping_intervals(
        MapIntervals(SeqOfSet(ApplicableRules(et, target_date)),
                     target_date, organizer_timezone))

get_daily_available_intervals(et, target_date, organizer_timezone) ==
    LET applicable_overrides == ApplicableOverrides(et, target_date)
    IN  IF applicable_overrides # <<>>
        THEN MapIntervals(
                 SelectSeq(applicable_overrides,
                           LAMBDA o : /\ o.is_available
                                      /\ o.start_time # None
                                      /\ o.end_time # None),
                 target_date, organizer_timezone)
        ELSE rule_intervals(et, target_date, organizer_timezone)

(***************************************************************************)
(* Slot enumerator.                                                        *)
(***************************************************************************)
Slot(start, duration_minutes) ==
    [start_time |-> start,
     end_time |-> start + Minutes(duration_minutes),
     duration_minutes |-> duration_minutes]

\* a loop that leaves out the slot ending exactly at the interval's end
RECURSIVE SlotsFromStrict(_, _, _, _)
SlotsFromStrict(current, end, duration_minutes, slot_interval_minutes) ==
    IF current + Minutes(duration_minutes) < end
    THEN <<Slot(current, duration_minutes)>>
            \o SlotsFromStrict(current + Minutes(slot_interval_minutes), end,
                               duration_minutes, slot_interval_minutes)
    ELSE <<>>

\* the loop of utils.py:334-343 from current; it ends only when the stride
\* moves current past the last fitting start
RECURSIVE SlotsFrom(_, _, _, _)
SlotsFrom(current, end, duration_minutes, slot_interval_minutes) ==
    IF current + Minutes(duration_minutes) <= end
    THEN <<Slot(current, duration_minutes)>>
            \o SlotsFrom(current + Minutes(slot_interval_minutes), end,
                         duration_minutes, slot_interval_minutes)
    ELSE <<>>

generate_slots_from_interval(interval_start, interval_end, duration_minutes, slot_interval_minutes) ==
    SlotsFrom(interval_start, interval_end, duration_minutes,
              slot_interval_minutes)

(***************************************************************************)
(* Block filter.                                                           *)
(***************************************************************************)
is_slot_blocked_by_one_time(slot) ==
    \E b \in blocked_times :
        /\ b.is_active
        /\ b.start_datetime < slot.end_time
        /\ b.end_datetime > slot.start_time

\* the block is composed on target_date in the slot's zone
is_slot_blocked_by_recurring(slot, target_date, tz) ==
    \E block \in recurring_blocks :
        /\ block.day_of_week = Weekday(target_date)
        /\ block.is_active
        /\ applies_to_date(block, target_date)
        /\ LET iv == RowInterval(block, target_date, tz)
           IN  iv[1] < slot.end_time /\ iv[2] > slot.start_time

is_slot_blocked(slot, target_date, tz) ==
    \/ is_slot_blocked_by_one_time(slot)
    \/ is_slot_blocked_by_recurring(slot, target_date, tz)

(***************************************************************************)
(* Booking conflict filter.                                                *)
(***************************************************************************)
Sum(f, S) ==
    LET RECURSIVE Acc(_)
        Acc(T) == IF T = {} THEN 0
                  ELSE LET x == CHOOSE y \in T : TRUE IN f[x] + Acc(T \ {x})
    IN  Acc(S)

\* a first query that forgets the status='confirmed' filter
existing_bookings_any_status(slot, buffer_before, buffer_after) ==
    LET protected_start == slot.start_time - Minutes(buffer_before)
        protected_end == slot.end_time + Minutes(buffer_after)
    IN  {b \in bookings : /\ b.start_time < protected_end
                          /\ b.end_time > protected_start}

\* utils.py:429-438: the rows of the first query
existing_bookings(slot, buffer_before, buffer_after) ==
    LET protected_start == slot.start_time - Minutes(buffer_before)
        protected_end == slot.end_time + Minutes(buffer_after)
    IN  {b \in bookings : /\ b.status = "confirmed"
                          /\ b.start_time < protected_end
                          /\ b.end_time > protected_start}

\* utils.py:440-447: the rows whose band widened by minimum_gap overlaps the
\* slot's protected zone
conflicting_bookings(slot, buffer_before, buffer_after, minimum_gap) ==
    LET protected_start == slot.start_time - Minutes(buffer_before)
        protected_end == slot.end_time + Minutes(buffer_after)
    IN  {booking \in existing_bookings(slot, buffer_before, buffer_after) :
            /\ booking.start_time - Minutes(minimum_gap) < protected_end
            /\ booking.end_time + Minutes(minimum_gap) > protected_start}

\* utils.py:450: the booking takes the capacity branch
counts_toward_capacity(et, booking) ==
    et.is_group_event /\ booking.event_type_id = et.id

\* a capacity check whose comparison is the wrong way round
over_capacity_flipped(et, slot, attendee_count) ==
    LET overlapping_bookings ==
            {b \in bookings : /\ b.event_type_id = et.id
                              /\ b.status = "confirmed"
                              /\ b.start_time < slot.end_time
                              /\ b.end_time > slot.start_time}
        total_confirmed_attendees ==
            Sum([b \in overlapping_bookings |-> b.attendee_count],
                overlapping_bookings)
    IN  total_confirmed_attendees + attendee_count < et.max_attendees

\* utils.py:452-465: the second query and the comparison with max_attendees
over_capacity(et, slot, attendee_count) ==
    LET overlapping_bookings ==
            {b \in bookings : /\ b.event_type_id = et.id
                              /\ b.status = "confirmed"
                              /\ b.start_time < slot.end_time
                              /\ b.end_time > slot.start_time}
        total_confirmed_attendees ==
            Sum([b \in overlapping_bookings |-> b.attendee_count],
                overlapping_bookings)
    IN  total_confirmed_attendees + attendee_count > et.max_attendees

\* the whole of the function on the table as it is, nothing committed
\* between its queries
is_slot_conflicting_with_bookings(et, slot, attendee_count, buffer_before, buffer_after, minimum_gap) ==
    \E booking \in conflicting_bookings(slot, buffer_before, buffer_after,
                                        minimum_gap) :
        IF counts_toward_capacity(et, booking)
        THEN over_capacity(et, slot, attendee_count)
        ELSE TRUE

(***************************************************************************)
(* One day of the orchestrator.                                            *)
(***************************************************************************)
RECURSIVE PotentialSlots(_, _, _)
PotentialSlots(intervals, duration_minutes, slot_interval) ==
    IF intervals = <<>> THEN <<>>
    ELSE generate_slots_from_interval(Head(intervals)[1], Head(intervals)[2],
                                      duration_minutes, slot_interval)
            \o PotentialSlots(Tail(intervals), duration_minutes, slot_interval)

calculate_daily_slots(et, target_date, organizer_timezone, attendee_count, buffer_before, buffer_after, minimum_gap, slot_interval) ==
    LET available_intervals ==
            get_daily_available_intervals(et, target_date, organizer_timezone)
        potential_slots ==
            PotentialSlots(available_intervals, et.duration, slot_interval)
    IN  SelectSeq(potential_slots,
            LAMBDA slot :
                /\ ~is_slot_blocked(slot, target_date, organizer_timezone)
                /\ ~is_slot_conflicting_with_bookings(
                        et, slot, attendee_count, buffer_before, buffer_after,
                        minimum_gap))

(***************************************************************************)
(* Multi-invitee intersection and DST enrichment.                          *)
(***************************************************************************)
\* datetime.astimezone(ZoneInfo(tz)).hour of an instant
LocalHour(instant, tz) == ((instant + UtcOffset(tz)) % SecondsPerDay) \div 3600

\* list.sort(key=fairness_score, reverse=True): stable, highest score first
InsertByFairness(sorted, x) ==
    LET k == Cardinality({i \in 1..Len(sorted) :
                            sorted[i].fairness_score >= x.fairness_score})
    IN  SubSeq(sorted, 1, k) \o <<x>> \o SubSeq(sorted, k + 1, Len(sorted))

RECURSIVE SortedByFairness(_)
SortedByFairness(s) ==
    IF s = <<>> THEN <<>>
    ELSE InsertByFairness(SortedByFairness(SubSeq(s, 1, Len(s) - 1)), s[Len(s)])

\* fairness_score is reasonable_count / len(invitee_timezones); the list is
\* the same for every slot of a call, so the count orders as the quotient
calculate_multi_invitee_intersection(slots, invitee_timezones, prof) ==
    SortedByFairness(
        [i \in 1..Len(slots) |->
            [start_time |-> slots[i].start_time,
             end_time |-> slots[i].end_time,
             duration_minutes |-> slots[i].duration_minutes,
             fairness_score |->
                Cardinality({j \in 1..Len(invitee_timezones) :
                    LET h == LocalHour(slots[i].start_time, invitee_timezones[j])
                    IN  /\ prof.reasonable_hours_start <= h
                        /\ h <= prof.reasonable_hours_end})]])

\* utils.py:511-513: the conversion of every zone raises and is skipped, so
\* no zone is counted and the order of the slots is kept by the stable sort
calculate_multi_invitee_intersection_raising(slots, invitee_timezones, prof) ==
    SortedByFairness(
        [i \in 1..Len(slots) |->
            [start_time |-> slots[i].start_time,
             end_time |-> slots[i].end_time,
             duration_minutes |-> slots[i].duration_minutes,
             fairness_score |-> 0]])

\* {**slot, local_start_time, local_end_time, is_dst}: the local times are
\* the wall-clock readings of the same instants in the invitee's zone
EnhancedSlot(slot, invitee_timezone) ==
    [k \in DOMAIN slot \cup {"local_start_time", "local_end_time", "is_dst"} |->
        CASE k = "local_start_time" ->
                slot.start_time + UtcOffset(invitee_timezone)
          [] k = "local_end_time" ->
                slot.end_time + UtcOffset(invitee_timezone)
          [] k = "is_dst" -> FALSE
          [] OTHER -> slot[k]]

enhance_slots_with_dst_info(slots, invitee_timezone) ==
    [i \in 1..Len(slots) |-> EnhancedSlot(slots[i], invitee_timezone)]

\* utils.py:556-558: the conversion raises for every slot and the original
\* slot is kept
enhance_slots_with_dst_info_raising(slots, invitee_timezone) == slots

(***************************************************************************)
(* Orchestrator.                                                           *)
(***************************************************************************)
NoFailure == [step |-> "none", date |-> 0]

\* utils.py:121-133: warnings collected before the try block
InviteeWarnings(req) ==
    (IF validate_timezone(req.invitee_timezone) THEN <<>>
     ELSE <<"Invalid invitee timezone">>)
    \o [i \in 1..Len(SelectSeq(req.invitee_timezones,
                               LAMBDA tz : ~validate_timezone(tz)))
            |-> "Invalid timezone in list"]

ValidInviteeTimezones(req) ==
    SelectSeq(req.invitee_timezones, LAMBDA tz : validate_timezone(tz))

\* utils.py:137-140
OrganizerTimezone(prof) ==
    IF validate_timezone(prof.timezone_name) THEN prof.timezone_name ELSE "UTC"

OrganizerWarnings(prof) ==
    IF validate_timezone(prof.timezone_name) THEN <<>>
    ELSE <<"Invalid organizer timezone, using UTC">>

\* utils.py:147-150
EffectiveBufferBefore(et, bs) ==
    PyOr(et.buffer_time_before, bs.default_buffer_before)
EffectiveBufferAfter(et, bs) ==
    PyOr(et.buffer_time_after, bs.default_buffer_after)
EffectiveSlotInterval(et, bs) ==
    PyOr(et.slot_interval_minutes, bs.slot_interval_minutes)

\* utils.py:153-170: the slots of the days first..last, concatenated
RECURSIVE AllSlots(_, _, _, _, _, _)
AllSlots(et, bs, prof, attendee_count, first, last) ==
    IF first > last THEN <<>>
    ELSE calculate_daily_slots(et, first, OrganizerTimezone(prof),
                               attendee_count,
                               EffectiveBufferBefore(et, bs),
                               EffectiveBufferAfter(et, bs),
                               bs.minimum_gap,
                               EffectiveSlotInterval(et, bs))
            \o AllSlots(et, bs, prof, attendee_count, first + 1, last)

\* utils.py:196-202: the except branch
error_response(warnings, all_slots) ==
    [slots |-> <<>>,
     warnings |-> warnings \o <<"Calculation error">>,
     performance_metrics |-> [duration |-> "elapsed"]]

\* whether the call ends in the except branch of utils.py:196: the step that
\* req.fail names is executed and its exception reaches the orchestrator.
\* "multi" is the read of organizer.profile at utils.py:481-482; the zone
\* conversions of the steps "zone" and "dst" are caught where they raise.
FailureHappens(req) ==
    \/ req.fail.step \in {"profile", "buffer"}
    \/ /\ req.fail.step = "day"
       /\ req.start_date <= req.fail.date /\ req.fail.date <= req.end_date
    \/ /\ req.fail.step = "multi"
       /\ Len(ValidInviteeTimezones(req)) > 1

\* utils.py:172-194 on the slots of the date loop, and the except branch
\* when organizer.profile cannot be read at utils.py:481-482
Answer(all_slots, prof, req) ==
    LET invitee_timezone ==
            IF validate_timezone(req.invitee_timezone)
            THEN req.invitee_timezone ELSE "UTC"
        invitee_timezones == ValidInviteeTimezones(req)
        warnings == InviteeWarnings(req) \o OrganizerWarnings(prof)
        sorted_slots ==
            IF Len(invitee_timezones) > 1
            THEN IF req.fail.step = "zone"
                 THEN calculate_multi_invitee_intersection_raising(
                          all_slots, invitee_timezones, prof)
                 ELSE calculate_multi_invitee_intersection(
                          all_slots, invitee_timezones, prof)
            ELSE all_slots
        enhanced_slots ==
            IF req.fail.step = "dst"
            THEN enhance_slots_with_dst_info_raising(sorted_slots,
                                                     invitee_timezone)
            ELSE enhance_slots_with_dst_info(sorted_slots, invitee_timezone)
    IN  IF req.fail.step = "multi" /\ FailureHappens(req)
        THEN error_response(warnings, all_slots)
        ELSE [slots |-> enhanced_slots,
              warnings |-> warnings,
              performance_metrics |->
                 [duration |-> "elapsed",
                  total_slots_calculated |-> Len(enhanced_slots),
                  date_range_days |-> req.end_date - req.start_date + 1]]

\* the whole call on the tables as they are, nothing committed between its
\* reads
calculate_available_slots(et, bs, prof, req) ==
    LET warnings0 == InviteeWarnings(req)
        warnings == warnings0 \o OrganizerWarnings(prof)
    IN  CASE req.fail.step = "profile" ->
                error_response(warnings0, <<>>)
          [] req.fail.step = "buffer" ->
                error_response(warnings, <<>>)
          [] req.fail.step = "day" /\ FailureHappens(req) ->
                error_response(warnings,
                    AllSlots(et, bs, prof, req.attendee_count,
                             req.start_date, req.fail.date - 1))
          [] OTHER ->
                Answer(AllSlots(et, bs, prof, req.attendee_count,
                                req.start_date, req.end_date), prof, req)

(***************************************************************************)
(* Dirty-set protocol on the cache backend.  An entry is the value and the *)
(* time it expires at, `now` plus the timeout it was set with; a get       *)
(* returns a copy of the value of an entry that has not expired, and the   *)
(* default otherwise.                                                      *)
(***************************************************************************)
Organizers == {"o1", "o2"}
Workers == 1..NumWorkers

Missing == [present |-> FALSE]
Entry(value, expires) == [present |-> TRUE, value |-> value, expires |-> expires]

DirtyKey(organizer_id) == "dirty_cache:" \o organizer_id
DirtyListKey == "dirty_cache_list"
CacheKeys == {DirtyKey(o) : o \in Organizers} \cup {DirtyListKey}

EmptyCache == [k \in CacheKeys |-> Missing]

\* the entry of key is stored and its expiry time has not come
has_key(c, key) == c[key].present /\ now < c[key].expires

cache_get(c, key, default) == IF has_key(c, key) THEN c[key].value ELSE default
cache_set(c, key, value, timeout) == [c EXCEPT ![key] = Entry(value, now + timeout)]
cache_delete(c, key) == [c EXCEPT ![key] = Missing]

\* utils.py:676-680: the default of the get
NewDirtyData(organizer_id) ==
    [organizer_id |-> organizer_id,
     requires_full_invalidation |-> FALSE,
     changes |-> <<>>]

\* a mark that stores the flag of the call instead of or-ing it in
UpdatedDirtyDataOverwriting(dirty_data, cache_type, requires_full_invalidation) ==
    [dirty_data EXCEPT
        !.requires_full_invalidation = requires_full_invalidation,
        !.changes = Append(@, [cache_type |-> cache_type])]

\* utils.py:683-692: the flag is only ever set, a change record is appended
\* (its timestamp is left out)
UpdatedDirtyData(dirty_data, cache_type, requires_full_invalidation) ==
    [dirty_data EXCEPT
        !.requires_full_invalidation =
            IF requires_full_invalidation THEN TRUE ELSE @,
        !.changes = Append(@, [cache_type |-> cache_type])]

get_dirty_organizers(c) == cache_get(c, DirtyListKey, {})

CacheTypes == {"availability_rule"}

NoCall ==
    [op |-> "none", organizer_id |-> "o1", cache_type |-> "availability_rule",
     requires_full_invalidation |-> FALSE, at |-> "none",
     dirty_data |-> NewDirtyData("o1"), dirty_organizers |-> {},
     read_at |-> 0, stored_at |-> 0]
NoCalls == [w \in Workers |-> NoCall]

\* a call that has returned: when it read the record of the organizer, when
\* it stored (or deleted) it, and when it returned
Returned(call) ==
    [op |-> call.op, organizer_id |-> call.organizer_id,
     requires_full_invalidation |-> call.requires_full_invalidation,
     read_at |-> call.read_at, stored_at |-> call.stored_at,
     time |-> now]

engineVars == <<rules, overrides, blocked_times, recurring_blocks, bookings,
                event_type, buffer_settings, profile, request, response,
                in_flight, interleaved, next_id>>

(***************************************************************************)
(* Rows the model draws from.                                              *)
(***************************************************************************)
NoResponse == [status |-> "none"]
NoRequest == [status |-> "none"]

EventTypeId == 1
OtherEventTypeId == 2

Rule(dow, start, end, scope, active) ==
    [day_of_week |-> dow, start_time |-> start, end_time |-> end,
     event_types |-> scope, is_active |-> active]

RuleUniverse ==
    {Rule(0, HM(9, 0), HM(10, 0), {}, TRUE),
     Rule(0, HM(10, 0), HM(11, 0), {}, TRUE),
     Rule(0, HM(23, 30), HM(0, 30), {}, TRUE),
     Rule(1, HM(0, 0), HM(1, 0), {}, TRUE)}

Override(date, available, start, end, scope, active) ==
    [date |-> date, is_available |-> available, start_time |-> start,
     end_time |-> end, event_types |-> scope, is_active |-> active]

OverrideUniverse ==
    {Override(0, FALSE, None, None, {}, TRUE),
     Override(0, TRUE, HM(9, 0), HM(10, 0), {}, TRUE),
     Override(0, TRUE, HM(23, 30), HM(0, 30), {}, TRUE),
     Override(1, FALSE, None, None, {}, TRUE),
     Override(1, TRUE, HM(0, 0), HM(1, 0), {}, TRUE),
     Override(0, FALSE, None, None, {}, FALSE),
     Override(0, FALSE, None, None, {OtherEventTypeId}, TRUE)}

DefaultEventType ==
    [id |-> EventTypeId, duration |-> 30, slot_interval_minutes |-> None,
     buffer_time_before |-> None, buffer_time_after |-> None,
     is_group_event |-> FALSE, max_attendees |-> 1]

DefaultBufferTime ==
    [default_buffer_before |-> 0, default_buffer_after |-> 0,
     minimum_gap |-> 0, slot_interval_minutes |-> 30]

DefaultProfile ==
    [timezone_name |-> "UTC", reasonable_hours_start |-> 9,
     reasonable_hours_end |-> 18]

Request(start, end, tz, tzs, attendees, fail) ==
    [start_date |-> start, end_date |-> end, invitee_timezone |-> tz,
     invitee_timezones |-> tzs, attendee_count |-> attendees, fail |-> fail]

(***************************************************************************)
(* Writes of the rule tables (serializers.py) and the query.               *)
(***************************************************************************)
\* AvailabilityRuleSerializer.validate (serializers.py:21-61) on the fields
\* that were sent; instance is {} on a create
AvailabilityRuleValid(attrs, instance) ==
    LET start_time == Get(attrs, "start_time")
        end_time == Get(attrs, "end_time")
        day_of_week == Get(attrs, "day_of_week")
    IN  /\ (start_time # None /\ end_time # None) => start_time # end_time
        /\ (day_of_week # None /\ start_time # None /\ end_time # None) =>
              \A existing_rule \in ExcludeInstance(rules, instance) :
                 (existing_rule.day_of_week = day_of_week
                  /\ existing_rule.is_active)
                 => ~are_time_intervals_overlapping(
                         start_time, end_time,
                         existing_rule.start_time, existing_rule.end_time,
                         TRUE)

\* DateOverrideRuleSerializer.validate
DateOverrideValid(attrs) ==
    attrs.is_available =>
        /\ attrs.start_time # None /\ attrs.end_time # None
        /\ attrs.start_time # attrs.end_time

\* a write request of some worker: the fields it sent, the row its view
\* loaded ({} for a create) and how far it has got
Write(table, attrs, instance, stage) ==
    [table |-> table, attrs |-> attrs, instance |-> instance, stage |-> stage]
InFlight(table, stage) ==
    {w \in BagToSet(in_flight) : w.table = table /\ w.stage = stage}
PendingCreates(table) ==
    LET creates == {w \in BagToSet(in_flight) :
                        w.table = table /\ w.instance = {}}
    IN  Sum([w \in creates |-> CopiesIn(w, in_flight)], creates)

\* a request enters, moves on, or leaves
Enter(w) == in_flight' = in_flight (+) SetToBag({w})
Leave(w) == in_flight' = in_flight (-) SetToBag({w})
Advance(w) ==
    in_flight' = (in_flight (-) SetToBag({w}))
                    (+) SetToBag({[w EXCEPT !.stage = "validated"]})

\* a write is committed, before a call or between two reads of the running
\* one
Commit ==
    /\ (pc = "idle" \/ interleaved < MaxInterleaved)
    /\ interleaved' = IF pc = "idle" THEN 0 ELSE interleaved + 1

\* the running call, if any, has seen no write committed since it was entered
Quiet == interleaved = 0

\* validate() of a create (serializers.py:21-61): it reads the table and
\* returns; the row is written by the save that follows.  Requests that send
\* the same fields are separate requests.
CreateAvailabilityRule(attrs) ==
    /\ response = NoResponse
    /\ BagCardinality(in_flight) < MaxPending
    /\ next_id.rule + PendingCreates("rule") <= MaxRules
    /\ AvailabilityRuleValid(attrs, {})
    /\ Enter(Write("rule", attrs, {}, "validated"))
    /\ UNCHANGED interleaved /\ UNCHANGED dbVars /\ UNCHANGED queryVars
    /\ UNCHANGED loopVars /\ UNCHANGED cacheVars

\* the update view loads the row the request names
LoadAvailabilityRule(r, attrs) ==
    /\ response = NoResponse
    /\ BagCardinality(in_flight) < MaxPending
    /\ r \in rules
    /\ Enter(Write("rule", attrs, {r}, "loaded"))
    /\ UNCHANGED interleaved /\ UNCHANGED dbVars /\ UNCHANGED queryVars
    /\ UNCHANGED loopVars /\ UNCHANGED cacheVars

\* validate() of a full or partial update (serializers.py:21-61) on the
\* table as it is now, the loaded row excluded by its id; a request that
\* fails is answered and gone
UpdateAvailabilityRule(w) ==
    /\ response = NoResponse
    /\ w \in InFlight("rule", "loaded")
    /\ IF AvailabilityRuleValid(w.attrs, w.instance) THEN Advance(w) ELSE Leave(w)
    /\ UNCHANGED interleaved /\ UNCHANGED dbVars /\ UNCHANGED queryVars
    /\ UNCHANGED loopVars /\ UNCHANGED cacheVars

\* save() of a validated create or update: a create inserts a row under a
\* new id; an update writes the loaded row with the sent fields over the row
\* of that id, and inserts it when the row was deleted in between
SaveAvailabilityRule(w) ==
    /\ response = NoResponse
    /\ w \in InFlight("rule", "validated")
    /\ Commit
    /\ rules' = IF w.instance = {}
                THEN rules \cup {Row(next_id.rule, w.attrs)}
                ELSE ExcludeInstance(rules, w.instance)
                        \cup {Updated(inst, w.attrs) : inst \in w.instance}
    /\ next_id' = IF w.instance = {}
                  THEN [next_id EXCEPT !.rule = @ + 1] ELSE next_id
    /\ Leave(w)
    /\ UNCHANGED <<overrides, blocked_times, recurring_blocks, bookings>>
    /\ UNCHANGED queryVars /\ UNCHANGED loopVars /\ UNCHANGED cacheVars

DeleteAvailabilityRule(r) ==
    /\ response = NoResponse
    /\ r \in rules
    /\ Commit
    /\ rules' = rules \ {r}
    /\ UNCHANGED <<overrides, blocked_times, recurring_blocks, bookings,
                   next_id, in_flight>>
    /\ UNCHANGED queryVars /\ UNCHANGED loopVars /\ UNCHANGED cacheVars

\* validate() (serializers.py:77-90) reads no table, so validate and save are
\* one step; a row equal to a stored one is accepted and stored again
CreateDateOverride(o) ==
    /\ response = NoResponse
    /\ Len(overrides) < MaxOverrides
    /\ DateOverrideValid(o)
    /\ Commit
    /\ overrides' = Append(overrides, o)
    /\ UNCHANGED <<rules, blocked_times, recurring_blocks, bookings,
                   next_id, in_flight>>
    /\ UNCHANGED queryVars /\ UNCHANGED loopVars /\ UNCHANGED cacheVars

(***************************************************************************)
(* calculate_available_slots as the sequence of its database reads: each   *)
(* read sees the rows committed when it runs, and the writes of other      *)
(* requests commit between two reads.                                      *)
(***************************************************************************)
CallUnchanged ==
    /\ UNCHANGED <<current_time, enum_end, pending, emitted, request,
                   event_type, buffer_settings, profile>>
    /\ UNCHANGED dbVars /\ UNCHANGED reqVars /\ UNCHANGED cacheVars

\* utils.py:116-154: the call is entered; a failing read of the profile or
\* of the BufferTime row is answered at once
Calculate(req) ==
    /\ pc = "idle" /\ response = NoResponse
    /\ request' = req
    /\ IF req.fail.step \in {"profile", "buffer"}
       THEN /\ response' = calculate_available_slots(event_type, buffer_settings,
                                                     profile, req)
            /\ pc' = "done"
            /\ UNCHANGED current_date
       ELSE /\ current_date' = req.start_date
            /\ pc' = "overrides"
            /\ UNCHANGED response
    /\ UNCHANGED <<current_time, enum_end, pending, emitted,
                   event_type, buffer_settings, profile>>
    /\ UNCHANGED filterVars
    /\ UNCHANGED dbVars /\ UNCHANGED reqVars /\ UNCHANGED cacheVars

\* utils.py:334: the while loop of every interval ends
EnumerationEnds(intervals, duration_minutes, slot_interval) ==
    \/ slot_interval > 0
    \/ \A i \in 1..Len(intervals) :
          intervals[i][1] + Minutes(duration_minutes) > intervals[i][2]

\* utils.py:337 and 196-202: slots.append raises MemoryError when the list
\* has taken the memory there is.  The except branch runs with the list still
\* held by the traceback and formats two strings: either it returns the error
\* answer (caught), or it raises MemoryError itself and the error leaves the
\* call
MemoryError(caught) ==
    IF caught
    THEN /\ response' = error_response(
                InviteeWarnings(request) \o OrganizerWarnings(profile),
                available_slots)
         /\ pc' = "done"
    ELSE /\ pc' = "raised"
         /\ UNCHANGED response

\* utils.py:224-233: the potential slots of current_date from its intervals;
\* a while loop that does not end appends until MemoryError; a date without
\* potential slots is done (utils.py:169-170)
Enumerate(intervals) ==
    LET slot_interval == EffectiveSlotInterval(event_type, buffer_settings)
        potential_slots ==
            PotentialSlots(intervals, event_type.duration, slot_interval)
    IN  IF ~EnumerationEnds(intervals, event_type.duration, slot_interval)
        THEN /\ \E caught \in BOOLEAN : MemoryError(caught)
             /\ UNCHANGED <<current_date, to_filter>>
        ELSE IF potential_slots = <<>>
        THEN /\ pc' = "overrides"
             /\ current_date' = current_date + 1
             /\ UNCHANGED <<to_filter, response>>
        ELSE /\ pc' = "blocked"
             /\ to_filter' = potential_slots
             /\ UNCHANGED <<current_date, response>>

\* utils.py:257-287: the DateOverrideRule read of current_date; applicable
\* overrides give the intervals, otherwise the rules are read next
ReadOverrides ==
    /\ pc = "overrides" /\ current_date <= request.end_date
    /\ IF request.fail = [step |-> "day", date |-> current_date]
       THEN /\ response' = error_response(
                   InviteeWarnings(request) \o OrganizerWarnings(profile),
                   available_slots)
            /\ pc' = "done"
            /\ UNCHANGED <<current_date, to_filter>>
       ELSE IF ApplicableOverrides(event_type, current_date) # <<>>
            THEN Enumerate(get_daily_available_intervals(
                     event_type, current_date, OrganizerTimezone(profile)))
            ELSE /\ pc' = "rules"
                 /\ UNCHANGED <<current_date, to_filter, response>>
    /\ UNCHANGED <<available_slots, to_check>>
    /\ CallUnchanged

\* utils.py:289-321: the AvailabilityRule read of current_date
ReadRules ==
    /\ pc = "rules"
    /\ Enumerate(rule_intervals(event_type, current_date,
                                OrganizerTimezone(profile)))
    /\ UNCHANGED <<available_slots, to_check>>
    /\ CallUnchanged

\* utils.py:238-244: the first potential slot is kept or dropped; after the
\* last one current_date moves on (utils.py:169-170)
SlotDecided(keep) ==
    /\ available_slots' = IF keep THEN Append(available_slots, Head(to_filter))
                          ELSE available_slots
    /\ to_filter' = Tail(to_filter)
    /\ to_check' = 0
    /\ IF Tail(to_filter) = <<>>
       THEN /\ pc' = "overrides"
            /\ current_date' = current_date + 1
       ELSE /\ pc' = "blocked"
            /\ UNCHANGED current_date

SlotUndecided(next) ==
    /\ pc' = next
    /\ UNCHANGED <<current_date, to_filter, available_slots>>

\* utils.py:363-370: the BlockedTime query of the first potential slot
CheckBlockedTime ==
    /\ pc = "blocked"
    /\ IF is_slot_blocked_by_one_time(Head(to_filter))
       THEN SlotDecided(FALSE)
       ELSE SlotUndecided("recurring") /\ UNCHANGED to_check
    /\ UNCHANGED response
    /\ CallUnchanged

\* utils.py:382-410: the RecurringBlockedTime query of that slot
CheckRecurring ==
    /\ pc = "recurring"
    /\ IF is_slot_blocked_by_recurring(Head(to_filter), current_date,
                                       OrganizerTimezone(profile))
       THEN SlotDecided(FALSE)
       ELSE SlotUndecided("bookings") /\ UNCHANGED to_check
    /\ UNCHANGED response
    /\ CallUnchanged

\* utils.py:433-450 and 466-470: the first Booking query of that slot; a
\* conflicting row outside the capacity branch drops the slot, the rows of
\* the capacity branch are looped over next
CheckBookings ==
    /\ pc = "bookings"
    /\ LET conflicting ==
               conflicting_bookings(Head(to_filter),
                   EffectiveBufferBefore(event_type, buffer_settings),
                   EffectiveBufferAfter(event_type, buffer_settings),
                   buffer_settings.minimum_gap)
           counted == {booking \in conflicting :
                          counts_toward_capacity(event_type, booking)}
       IN  IF conflicting # counted THEN SlotDecided(FALSE)
           ELSE IF counted = {} THEN SlotDecided(TRUE)
           ELSE SlotUndecided("capacity") /\ to_check' = Cardinality(counted)
    /\ UNCHANGED response
    /\ CallUnchanged

\* utils.py:452-465: the capacity query for one row of the first query, on
\* the Booking table as it is now
CheckCapacity ==
    /\ pc = "capacity"
    /\ IF over_capacity(event_type, Head(to_filter), request.attendee_count)
       THEN SlotDecided(FALSE)
       ELSE IF to_check = 1 THEN SlotDecided(TRUE)
       ELSE SlotUndecided("capacity") /\ to_check' = to_check - 1
    /\ UNCHANGED response
    /\ CallUnchanged

\* utils.py:172-194: after the last date the slots collected are ranked,
\* enriched and returned
Return ==
    /\ pc = "overrides" /\ current_date > request.end_date
    /\ response' = Answer(available_slots, profile, request)
    /\ pc' = "done"
    /\ UNCHANGED <<current_date, to_filter, available_slots, to_check>>
    /\ CallUnchanged

QueryRequests ==
    {Request(s, e, "UTC", <<>>, 1, NoFailure) : s \in Dates, e \in Dates}

InitCommon ==
    /\ blocked_times = {} /\ recurring_blocks = {} /\ bookings = {}
    /\ request = NoRequest /\ response = NoResponse
    /\ pc = "idle" /\ current_date = 0 /\ current_time = 0 /\ enum_end = 0
    /\ pending = <<>> /\ emitted = 0
    /\ to_filter = <<>> /\ available_slots = <<>> /\ to_check = 0
    /\ cache = EmptyCache /\ now = 0 /\ calls = NoCalls /\ history = <<>>
    /\ in_flight = EmptyBag /\ interleaved = 0

\* the primary keys in use are 1..number of rows
InitIds ==
    next_id = [rule |-> Cardinality(rules) + 1,
               blocked |-> Cardinality(blocked_times) + 1,
               recurring |-> Cardinality(recurring_blocks) + 1,
               booking |-> Cardinality(bookings) + 1]

Init ==
    /\ InitCommon
    /\ rules = {} /\ overrides = <<>>
    /\ event_type = DefaultEventType
    /\ buffer_settings = DefaultBufferTime
    /\ profile = DefaultProfile
    /\ InitIds

Next ==
    \/ \E r \in RuleUniverse : CreateAvailabilityRule(r)
    \/ \E w \in InFlight("rule", "validated") : SaveAvailabilityRule(w)
    \/ \E r \in rules : DeleteAvailabilityRule(r)
    \/ \E o \in OverrideUniverse : CreateDateOverride(o)
    \/ \E req \in QueryRequests : req.start_date <= req.end_date /\ Calculate(req)
    \/ ReadOverrides
    \/ ReadRules
    \/ CheckBlockedTime
    \/ CheckRecurring
    \/ CheckBookings
    \/ Return

Spec == Init /\ [][Next]_vars

(***************************************************************************)
(* Rule writes against stored overrides (SpecPrecedence): the overrides    *)
(* are fixed, rules are created and deleted while ranges are queried.      *)
(***************************************************************************)
PrecedenceOverrides ==
    {<<Override(0, TRUE, HM(9, 0), HM(10, 0), {}, TRUE)>>,
     <<Override(0, FALSE, None, None, {}, TRUE)>>,
     <<Override(0, FALSE, None, None, {OtherEventTypeId}, TRUE)>>}

PrecedenceRules ==
    {Rule(0, HM(9, 0), HM(10, 0), {}, TRUE),
     Rule(0, HM(10, 30), HM(11, 0), {}, TRUE)}

InitPrecedence ==
    /\ InitCommon
    /\ rules = {}
    /\ overrides \in PrecedenceOverrides
    /\ event_type = DefaultEventType
    /\ buffer_settings = DefaultBufferTime
    /\ profile = DefaultProfile
    /\ InitIds

NextPrecedence ==
    \/ \E r \in PrecedenceRules : CreateAvailabilityRule(r)
    \/ \E w \in InFlight("rule", "validated") : SaveAvailabilityRule(w)
    \/ \E r \in rules : DeleteAvailabilityRule(r)
    \/ \E req \in QueryRequests : req.start_date <= req.end_date /\ Calculate(req)
    \/ ReadOverrides
    \/ ReadRules
    \/ CheckBlockedTime
    \/ CheckRecurring
    \/ CheckBookings
    \/ Return

SpecPrecedence == InitPrecedence /\ [][NextPrecedence]_vars

(***************************************************************************)
(* Claims on the rule resolver and the orchestrator's output (Spec).       *)
(***************************************************************************)
Answered == response # NoResponse

RequestedDates == {d \in Dates : request.start_date <= d /\ d <= request.end_date}

\* the intervals and the slots of date d, on the tables as they are
IntervalsOf(d) ==
    get_daily_available_intervals(event_type, d, OrganizerTimezone(profile))

SlotsGeneratedFor(d, attendee_count) ==
    calculate_daily_slots(event_type, d, OrganizerTimezone(profile),
                          attendee_count,
                          EffectiveBufferBefore(event_type, buffer_settings),
                          EffectiveBufferAfter(event_type, buffer_settings),
                          buffer_settings.minimum_gap,
                          EffectiveSlotInterval(event_type, buffer_settings))

StartTimes(slots) == {slots[i].start_time : i \in 1..Len(slots)}

\* the start instants of the answer that lie on date d of the organizer's
\* zone
AnsweredOn(d) ==
    {t \in StartTimes(response.slots) :
        (t + UtcOffset(OrganizerTimezone(profile))) \div SecondsPerDay = d}

\* C1: on a date with at least one applicable active DateOverrideRule, a step
\* that adds or removes AvailabilityRule rows (everything else unchanged)
\* changes neither the intervals of the date nor the slots generated for it;
\* and a call answers such a date with the slots of its overrides, whatever
\* rules are created or deleted before or while it runs.
RulePrecedence ==
    /\ [][\A d \in Dates :
            (/\ ApplicableOverrides(event_type, d) # <<>>
             /\ UNCHANGED <<overrides, blocked_times, recurring_blocks,
                            bookings, event_type, buffer_settings, profile>>)
            => /\ IntervalsOf(d)' = IntervalsOf(d)
               /\ SlotsGeneratedFor(d, 1)' = SlotsGeneratedFor(d, 1)]_vars
    /\ [](Answered =>
            \A d \in RequestedDates :
                ApplicableOverrides(event_type, d) # <<>> =>
                    AnsweredOn(d) =
                        StartTimes(SlotsGeneratedFor(d, request.attendee_count)))

\* C1 witness: a query answered with slots for a date that has an applicable
\* override offering a window and also applicable recurring rules.
RulePrecedenceWitness ==
    /\ Answered /\ ~Quiet
    /\ \E d \in RequestedDates :
          /\ ApplicableOverrides(event_type, d) # <<>>
          /\ ApplicableRules(event_type, d) # {}
          /\ IntervalsOf(d) # <<>>
          /\ StartTimes(SlotsGeneratedFor(d, 1)) \subseteq StartTimes(response.slots)
          /\ SlotsGeneratedFor(d, 1) # <<>>

\* C2: a requested date with an applicable active override that has
\* is_available = FALSE contributes no slot to the answer, whatever other
\* overrides or rules exist (for a call during which nothing was committed).
OverrideClosesDay ==
    (Answered /\ Quiet) =>
        \A d \in RequestedDates :
            (\E i \in 1..Len(ApplicableOverrides(event_type, d)) :
                ~ApplicableOverrides(event_type, d)[i].is_available)
            => SlotsGeneratedFor(d, request.attendee_count) = <<>>

\* C6: with fewer than two valid invitee timezones the answer's slots are in
\* non-decreasing order of start instant.
OutputOrdered ==
    (Answered /\ Len(ValidInviteeTimezones(request)) < 2) =>
        \A i, j \in 1..Len(response.slots) :
            i < j => response.slots[i].start_time <= response.slots[j].start_time

(***************************************************************************)
(* Bookings against one recurring rule (SpecBook).                         *)
(***************************************************************************)
Booking(et_id, status, start, end, attendees) ==
    [event_type_id |-> et_id, status |-> status, start_time |-> start,
     end_time |-> end, attendee_count |-> attendees]

BookingUniverse ==
    {Booking(EventTypeId, "confirmed", HM(10, 0), HM(10, 30), n) :
        n \in 1..MaxAttendeeCount}
    \cup {Booking(EventTypeId, "confirmed", HM(9, 0), HM(9, 30), 1),
          Booking(OtherEventTypeId, "confirmed", HM(10, 0), HM(10, 30), 1),
          Booking(EventTypeId, "cancelled", HM(9, 0), HM(9, 30), 1)}

\* the bookings subsystem commits a booking of the organizer, confirmed or
\* cancelled; a row equal to a stored one is another row
InsertBooking(b) ==
    /\ response = NoResponse
    /\ next_id.booking <= MaxBookings
    /\ Commit
    /\ bookings' = bookings \cup {Row(next_id.booking, b)}
    /\ next_id' = [next_id EXCEPT !.booking = @ + 1]
    /\ UNCHANGED <<rules, overrides, blocked_times, recurring_blocks, in_flight>>
    /\ UNCHANGED queryVars /\ UNCHANGED loopVars /\ UNCHANGED cacheVars

BookEventTypes ==
    {[DefaultEventType EXCEPT !.buffer_time_before = bb] : bb \in {None, 15}}
    \cup {[DefaultEventType EXCEPT !.buffer_time_before = bb,
                                   !.is_group_event = TRUE,
                                   !.max_attendees = m] :
            bb \in {None, 15}, m \in 1..MaxAttendees}

BookBufferTimes ==
    {[DefaultBufferTime EXCEPT !.default_buffer_after = ba,
                               !.minimum_gap = g] :
        ba \in {0, 15}, g \in {0, 15}}

BookRequests ==
    {Request(0, 0, "UTC", <<>>, n, NoFailure) : n \in 1..MaxAttendeeCount}

InitBook ==
    /\ InitCommon
    /\ rules = {Row(1, Rule(0, HM(9, 0), HM(11, 0), {}, TRUE))}
    /\ overrides = <<>>
    /\ event_type \in BookEventTypes
    /\ buffer_settings \in BookBufferTimes
    /\ profile = DefaultProfile
    /\ InitIds

NextBook ==
    \/ \E b \in BookingUniverse : InsertBooking(b)
    \/ \E req \in BookRequests : Calculate(req)
    \/ ReadOverrides
    \/ ReadRules
    \/ CheckBlockedTime
    \/ CheckRecurring
    \/ CheckBookings
    \/ CheckCapacity
    \/ Return

SpecBook == InitBook /\ [][NextBook]_vars

\* every candidate slot of the requested dates, before filtering
Candidates ==
    {s \in UNION {Range(PotentialSlots(IntervalsOf(d), event_type.duration,
                        EffectiveSlotInterval(event_type, buffer_settings))) :
                  d \in RequestedDates} : TRUE}

BufferBefore == EffectiveBufferBefore(event_type, buffer_settings)
BufferAfter == EffectiveBufferAfter(event_type, buffer_settings)

\* a confirmed booking strictly overlaps the slot's protected zone
ConfirmedInProtectedZone(slot) ==
    \E b \in bookings :
        /\ b.status = "confirmed"
        /\ b.start_time < slot.end_time + Minutes(BufferAfter)
        /\ b.end_time > slot.start_time - Minutes(BufferBefore)

\* C3: for a non-group event type the conflict filter is true exactly when a
\* confirmed booking strictly overlaps the slot's protected zone, on every
\* Booking table a call can meet; the answer of a call during which nothing
\* was committed holds exactly the candidates with no such booking, so
\* bookings of another status remove nothing.
BufferedBookingConflict ==
    (request # NoRequest /\ ~event_type.is_group_event) =>
        /\ \A slot \in Candidates :
              is_slot_conflicting_with_bookings(
                  event_type, slot, request.attendee_count, BufferBefore,
                  BufferAfter, buffer_settings.minimum_gap)
              <=> ConfirmedInProtectedZone(slot)
        /\ (Answered /\ Quiet) =>
              StartTimes(response.slots) =
                 {slot.start_time : slot \in
                     {c \in Candidates : ~ConfirmedInProtectedZone(c)}}

\* C3 witness: an answer for a non-group event type where a confirmed
\* booking removed a candidate and a cancelled booking overlapping a
\* returned slot did not.
BufferedBookingConflictWitness ==
    /\ Answered /\ ~event_type.is_group_event
    /\ BufferBefore > 0 /\ BufferAfter > 0
    /\ \E c \in Candidates : ConfirmedInProtectedZone(c)
    /\ \E i \in 1..Len(response.slots) : \E b \in bookings :
          /\ b.status = "cancelled"
          /\ b.start_time < response.slots[i].end_time
          /\ b.end_time > response.slots[i].start_time

\* C4: for a non-group event type no returned slot's protected zone strictly
\* overlaps the band [B.start - minimum_gap, B.end + minimum_gap] of a
\* confirmed booking B (for a call during which nothing was committed).
MinimumGapBand ==
    (Answered /\ Quiet /\ ~event_type.is_group_event) =>
        \A i \in 1..Len(response.slots) : \A b \in bookings :
            b.status = "confirmed" =>
                ~(/\ response.slots[i].start_time - Minutes(BufferBefore)
                        < b.end_time + Minutes(buffer_settings.minimum_gap)
                  /\ response.slots[i].end_time + Minutes(BufferAfter)
                        > b.start_time - Minutes(buffer_settings.minimum_gap))

SlotsWith(max_attendees, attendee_count) ==
    Range(calculate_available_slots(
              [event_type EXCEPT !.max_attendees = max_attendees],
              buffer_settings, profile,
              [request EXCEPT !.attendee_count = attendee_count]).slots)

\* C5: for a group event type, with the tables fixed while the call runs and
\* everything else equal, the answer's slots are among those of any larger
\* max_attendees, and contain those of any larger attendee_count.
GroupCapacityMonotone ==
    (Answered /\ Quiet /\ event_type.is_group_event) =>
        /\ \A m \in 1..MaxAttendees :
              m > event_type.max_attendees =>
                  Range(response.slots)
                      \subseteq SlotsWith(m, request.attendee_count)
        /\ \A a \in 1..MaxAttendeeCount :
              a > request.attendee_count =>
                  SlotsWith(event_type.max_attendees, a)
                      \subseteq Range(response.slots)

\* C5 witness: an answer for a group event type where capacity decides: a
\* larger max_attendees returns a slot this answer lacks, and a larger
\* attendee_count loses a slot this answer has.
GroupCapacityMonotoneWitness ==
    /\ Answered /\ event_type.is_group_event
    /\ \E m \in 1..MaxAttendees :
          /\ m > event_type.max_attendees
          /\ SlotsWith(m, request.attendee_count) # Range(response.slots)
    /\ \E a \in 1..MaxAttendeeCount :
          /\ a > request.attendee_count
          /\ SlotsWith(event_type.max_attendees, a) # Range(response.slots)

(***************************************************************************)
(* Failures inside the orchestrator (SpecFail).                            *)
(***************************************************************************)
Failures ==
    {NoFailure}
    \cup {[step |-> st, date |-> 0] :
            st \in {"profile", "buffer", "multi", "zone", "dst"}}
    \cup {[step |-> "day", date |-> d] : d \in Dates}

FailRequests ==
    {Request(s, e, tz, tzs, 1, f) :
        s \in Dates, e \in Dates, tz \in {"UTC", "Mars/Olympus"},
        tzs \in {<<>>, <<"UTC", "Asia/Tokyo">>, <<"Mars/Olympus", "UTC">>},
        f \in Failures}

InitFail ==
    /\ InitCommon
    /\ rules = {Row(1, Rule(0, HM(9, 0), HM(10, 0), {}, TRUE))}
    /\ overrides = <<>>
    /\ event_type = DefaultEventType
    /\ buffer_settings \in
          {DefaultBufferTime,
           [DefaultBufferTime EXCEPT !.slot_interval_minutes = 0]}
    /\ profile \in {DefaultProfile,
                    [DefaultProfile EXCEPT !.timezone_name = "Mars/Olympus"]}
    /\ InitIds

NextFail ==
    \/ \E o \in OverrideUniverse : CreateDateOverride(o)
    \/ \E req \in FailRequests : req.start_date <= req.end_date /\ Calculate(req)
    \/ ReadOverrides
    \/ ReadRules
    \/ CheckBlockedTime
    \/ CheckRecurring
    \/ CheckBookings
    \/ Return

SpecFail == InitFail /\ [][NextFail]_vars

\* the warnings appended before the failing step ran
WarningsSoFar ==
    InviteeWarnings(request)
    \o (IF request.fail.step = "profile" THEN <<>> ELSE OrganizerWarnings(profile))

ErrorAnswer ==
    /\ response.slots = <<>>
    /\ Len(response.warnings) = Len(WarningsSoFar) + 1
    /\ SubSeq(response.warnings, 1, Len(WarningsSoFar)) = WarningsSoFar
    /\ response.warnings[Len(response.warnings)] = "Calculation error"
    /\ "duration" \in DOMAIN response.performance_metrics

\* C7: when a step inside the try block fails and the step does not handle
\* the failure itself (organizer timezone, BufferTime, a day's reads and
\* enumeration, the profile read of the multi-invitee step), the failure does
\* not leave the call, and the call returns an answer with no slots, the
\* warnings collected so far followed by one error entry, and metrics that
\* hold duration.
FailureBoundary ==
    /\ pc # "raised"
    /\ (Answered /\ FailureHappens(request)) => ErrorAnswer

\* the failures that req.fail names all end in the error answer
InjectedFailureAnswered == (Answered /\ FailureHappens(request)) => ErrorAnswer

\* a MemoryError of the enumeration that the except branch survives ends in
\* the error answer too
MemoryErrorAnswered ==
    (Answered /\ EffectiveSlotInterval(event_type, buffer_settings) = 0
        /\ response.warnings # WarningsSoFar) => ErrorAnswer

(***************************************************************************)
(* calculate_available_slots statement by statement (SpecEnum): the loop   *)
(* over the dates, the loop over a date's intervals and the while loop of  *)
(* _generate_slots_from_interval.  `emitted` counts the slots the running  *)
(* enumeration has appended; the memory holds MaxEmitted of them, and the  *)
(* append after that raises MemoryError.                                   *)
(***************************************************************************)
EnumEventTypes ==
    {[DefaultEventType EXCEPT !.duration = d, !.slot_interval_minutes = k] :
        d \in {0, 30, 60}, k \in {None, 0, 30}}

EnumBufferTimes ==
    {[DefaultBufferTime EXCEPT !.slot_interval_minutes = k] : k \in {0, 30}}

InitEnum ==
    /\ InitCommon
    /\ rules = {Row(1, Rule(0, HM(9, 0), HM(10, 0), {}, TRUE))}
    /\ overrides = <<Override(1, TRUE, HM(13, 0), HM(13, 30), {}, TRUE),
                     Override(1, TRUE, HM(9, 0), HM(10, 0), {}, TRUE)>>
    /\ event_type \in EnumEventTypes
    /\ buffer_settings \in EnumBufferTimes
    /\ profile = DefaultProfile
    /\ InitIds

\* utils.py:116-154: the call is entered, current_date = start_date
EnterCall(req) ==
    /\ pc = "idle" /\ response = NoResponse
    /\ request' = req
    /\ current_date' = req.start_date
    /\ pc' = "date_loop"
    /\ UNCHANGED <<current_time, enum_end, pending, emitted, response,
                   event_type, buffer_settings, profile>>
    /\ UNCHANGED dbVars /\ UNCHANGED cacheVars /\ UNCHANGED reqVars /\ UNCHANGED filterVars

\* utils.py:156 and 220-225: the next date's intervals, or the loop's end
DateLoop ==
    /\ pc = "date_loop"
    /\ IF current_date <= request.end_date
       THEN /\ pending' = IntervalsOf(current_date)
            /\ pc' = "interval_loop"
       ELSE /\ pc' = "finish"
            /\ UNCHANGED pending
    /\ UNCHANGED <<current_date, current_time, enum_end, emitted, request,
                   response, event_type, buffer_settings, profile>>
    /\ UNCHANGED dbVars /\ UNCHANGED cacheVars /\ UNCHANGED reqVars /\ UNCHANGED filterVars

\* utils.py:229-233 and 331-332: the next interval is entered; after the
\* last one the date's slots are filtered (utils.py:236-244) and
\* current_date moves on (utils.py:169-170)
IntervalLoop ==
    /\ pc = "interval_loop"
    /\ IF pending # <<>>
       THEN /\ current_time' = Head(pending)[1]
            /\ enum_end' = Head(pending)[2]
            /\ pending' = Tail(pending)
            /\ emitted' = 0
            /\ pc' = "while_test"
            /\ UNCHANGED current_date
       ELSE /\ current_date' = current_date + 1
            /\ pc' = "date_loop"
            /\ UNCHANGED <<current_time, enum_end, pending, emitted>>
    /\ UNCHANGED <<request, response, event_type, buffer_settings, profile>>
    /\ UNCHANGED dbVars /\ UNCHANGED cacheVars /\ UNCHANGED reqVars /\ UNCHANGED filterVars

\* utils.py:334: the while condition
WhileTest ==
    /\ pc = "while_test"
    /\ pc' = IF current_time + Minutes(event_type.duration) <= enum_end
             THEN "while_body" ELSE "interval_loop"
    /\ UNCHANGED <<current_date, current_time, enum_end, pending, emitted,
                   request, response, event_type, buffer_settings, profile>>
    /\ UNCHANGED dbVars /\ UNCHANGED cacheVars /\ UNCHANGED reqVars /\ UNCHANGED filterVars

\* utils.py:335-343: one slot appended, current_time += slot interval
WhileBody ==
    /\ pc = "while_body"
    /\ emitted < MaxEmitted
    /\ emitted' = emitted + 1
    /\ current_time' = current_time
          + Minutes(EffectiveSlotInterval(event_type, buffer_settings))
    /\ pc' = "while_test"
    /\ UNCHANGED <<current_date, enum_end, pending, request, response,
                   event_type, buffer_settings, profile>>
    /\ UNCHANGED dbVars /\ UNCHANGED cacheVars /\ UNCHANGED reqVars /\ UNCHANGED filterVars

\* utils.py:337: the list cannot grow and slots.append raises MemoryError
AppendRaises(caught) ==
    /\ pc = "while_body"
    /\ emitted = MaxEmitted
    /\ MemoryError(caught)
    /\ UNCHANGED <<current_date, current_time, enum_end, pending, emitted,
                   request, event_type, buffer_settings, profile>>
    /\ UNCHANGED dbVars /\ UNCHANGED cacheVars /\ UNCHANGED reqVars /\ UNCHANGED filterVars

\* utils.py:172-194: the answer is returned
ReturnAnswer ==
    /\ pc = "finish"
    /\ response' = calculate_available_slots(event_type, buffer_settings,
                                             profile, request)
    /\ pc' = "done"
    /\ UNCHANGED <<current_date, current_time, enum_end, pending, emitted,
                   request, event_type, buffer_settings, profile>>
    /\ UNCHANGED dbVars /\ UNCHANGED cacheVars /\ UNCHANGED reqVars /\ UNCHANGED filterVars

NextEnum ==
    \/ \E req \in QueryRequests : req.start_date <= req.end_date /\ EnterCall(req)
    \/ DateLoop
    \/ IntervalLoop
    \/ WhileTest
    \/ WhileBody
    \/ \E caught \in BOOLEAN : AppendRaises(caught)
    \/ ReturnAnswer

\* a running call keeps running: the interpreter executes its next statement
SpecEnum == InitEnum /\ [][NextEnum]_vars /\ WF_vars(NextEnum)

\* C8: every call that is entered returns, for every non-negative duration
\* and effective slot interval, a slot interval of 0 on both the event type
\* and the BufferTime row included.
EventuallyReturns == (pc # "idle") ~> (pc = "done")

\* every call that is entered ends, by a return or by an exception
EventuallyEnds == (pc # "idle") ~> (pc \in {"done", "raised"})

\* a call returns with a list that never took the memory there is, whenever
\* the effective slot interval is positive
ReturnsWhenStridePositive ==
    (pc # "idle" /\ EffectiveSlotInterval(event_type, buffer_settings) > 0)
        ~> (pc = "done" /\ response.warnings = <<>>)

(***************************************************************************)
(* The calls on the dirty set, one cache operation per step: each get, set *)
(* and delete is a round trip to the cache backend, and nothing holds the  *)
(* cache between two of them.                                              *)
(***************************************************************************)
InitDirty ==
    /\ InitCommon
    /\ rules = {} /\ overrides = <<>>
    /\ event_type = DefaultEventType
    /\ buffer_settings = DefaultBufferTime
    /\ profile = DefaultProfile
    /\ InitIds

Running == {w \in Workers : calls[w].op # "none"}
CallsStarted == Len(history) + Cardinality(Running)

\* utils.py:673-680: the call is entered and reads the record
MarkGetData(w, organizer_id, cache_type, requires_full_invalidation) ==
    /\ calls[w].op = "none"
    /\ CallsStarted < MaxCalls
    /\ calls' = [calls EXCEPT ![w] =
          [op |-> "mark", organizer_id |-> organizer_id,
           cache_type |-> cache_type,
           requires_full_invalidation |-> requires_full_invalidation,
           at |-> "set_data",
           dirty_data |-> cache_get(cache, DirtyKey(organizer_id),
                                    NewDirtyData(organizer_id)),
           dirty_organizers |-> {},
           read_at |-> now, stored_at |-> now]]
    /\ UNCHANGED <<cache, history>>
    /\ UNCHANGED now /\ UNCHANGED engineVars /\ UNCHANGED loopVars

\* utils.py:683-695: update the copy that was read and store it
MarkSetData(w) ==
    /\ calls[w].op = "mark" /\ calls[w].at = "set_data"
    /\ cache' = cache_set(cache, DirtyKey(calls[w].organizer_id),
                          UpdatedDirtyData(calls[w].dirty_data,
                                           calls[w].cache_type,
                                           calls[w].requires_full_invalidation),
                          CacheTimeout)
    /\ calls' = [calls EXCEPT ![w].at = "get_list", ![w].stored_at = now]
    /\ UNCHANGED history
    /\ UNCHANGED now /\ UNCHANGED engineVars /\ UNCHANGED loopVars

\* utils.py:698-699
MarkGetList(w) ==
    /\ calls[w].op = "mark" /\ calls[w].at = "get_list"
    /\ calls' = [calls EXCEPT
          ![w].at = "set_list",
          ![w].dirty_organizers = cache_get(cache, DirtyListKey, {})]
    /\ UNCHANGED <<cache, history>>
    /\ UNCHANGED now /\ UNCHANGED engineVars /\ UNCHANGED loopVars

\* utils.py:700-701, and the call returns
MarkSetList(w) ==
    /\ calls[w].op = "mark" /\ calls[w].at = "set_list"
    /\ cache' = cache_set(cache, DirtyListKey,
                          calls[w].dirty_organizers \cup {calls[w].organizer_id},
                          CacheTimeout)
    /\ history' = Append(history, Returned(calls[w]))
    /\ calls' = [calls EXCEPT ![w] = NoCall]
    /\ UNCHANGED now /\ UNCHANGED engineVars /\ UNCHANGED loopVars

\* utils.py:711-715: the call is entered and deletes the record
ClearDelete(w, organizer_id) ==
    /\ calls[w].op = "none"
    /\ CallsStarted < MaxCalls
    /\ cache' = cache_delete(cache, DirtyKey(organizer_id))
    /\ calls' = [calls EXCEPT ![w] =
          [NoCall EXCEPT !.op = "clear", !.organizer_id = organizer_id,
                         !.at = "get_list",
                         !.read_at = now, !.stored_at = now]]
    /\ UNCHANGED history
    /\ UNCHANGED now /\ UNCHANGED engineVars /\ UNCHANGED loopVars

\* utils.py:718-719
ClearGetList(w) ==
    /\ calls[w].op = "clear" /\ calls[w].at = "get_list"
    /\ calls' = [calls EXCEPT
          ![w].at = "set_list",
          ![w].dirty_organizers = cache_get(cache, DirtyListKey, {})]
    /\ UNCHANGED <<cache, history>>
    /\ UNCHANGED now /\ UNCHANGED engineVars /\ UNCHANGED loopVars

\* utils.py:720-721, and the call returns
ClearSetList(w) ==
    /\ calls[w].op = "clear" /\ calls[w].at = "set_list"
    /\ cache' = cache_set(cache, DirtyListKey,
                          calls[w].dirty_organizers \ {calls[w].organizer_id},
                          CacheTimeout)
    /\ history' = Append(history, Returned(calls[w]))
    /\ calls' = [calls EXCEPT ![w] = NoCall]
    /\ UNCHANGED now /\ UNCHANGED engineVars /\ UNCHANGED loopVars

\* time passes, between two calls and between two cache operations of a call;
\* an entry is gone for every get from the moment `now` reaches its expiry
\* time
Tick ==
    /\ now + TickSeconds <= MaxTicks * TickSeconds
    /\ now' = now + TickSeconds
    /\ UNCHANGED <<cache, calls, history>>
    /\ UNCHANGED engineVars /\ UNCHANGED loopVars

(***************************************************************************)
(* Sequential use of the dirty set (SpecDirty): one caller, whose next     *)
(* call starts when the one before has returned, and the clock.            *)
(***************************************************************************)
\* the one caller: the first of the workers
Caller == CHOOSE w \in Workers : \A v \in Workers : w <= v

NextDirty ==
    \/ \E o \in Organizers, ct \in CacheTypes, full \in BOOLEAN :
          MarkGetData(Caller, o, ct, full)
    \/ MarkSetData(Caller)
    \/ MarkGetList(Caller)
    \/ MarkSetList(Caller)
    \/ \E o \in Organizers : ClearDelete(Caller, o)
    \/ ClearGetList(Caller)
    \/ ClearSetList(Caller)
    \/ Tick

SpecDirty == InitDirty /\ [][NextDirty]_vars

IsMarkOf(o, i) == history[i].op = "mark" /\ history[i].organizer_id = o
IsClearOf(o, i) == history[i].op = "clear" /\ history[i].organizer_id = o

\* the i-th call was a mark of o with requires_full_invalidation=True and no
\* clear of o has run after it
MarkedFullAt(o, i) ==
    /\ IsMarkOf(o, i) /\ history[i].requires_full_invalidation
    /\ \A j \in (i + 1)..Len(history) : ~IsClearOf(o, j)
    /\ \A w \in Workers :
          ~(calls[w].op = "clear" /\ calls[w].organizer_id = o)

\* the last call that returned was a mark of o, it has only just returned and
\* no other call has started
JustMarked(o) ==
    /\ history # <<>>
    /\ IsMarkOf(o, Len(history))
    /\ history[Len(history)].time = now
    /\ Running = {}

\* cache.get(dirty_key) returns a record with the flag set
FlagSet(o) ==
    /\ has_key(cache, DirtyKey(o))
    /\ cache[DirtyKey(o)].value.requires_full_invalidation

\* when the last mark of o among the first n calls stored the record
LastStored(o, n) ==
    LET marks == {i \in 1..n : IsMarkOf(o, i)}
    IN  history[CHOOSE i \in marks : \A k \in marks : k <= i].stored_at

\* since the i-th call the record of o has not expired: every later mark of o
\* read it, and `now` is, less than CacheTimeout after the mark of o before
\* stored it
KeptAlive(o, i) ==
    /\ \A j \in (i + 1)..Len(history) :
          IsMarkOf(o, j) =>
              history[j].read_at - LastStored(o, j - 1) < CacheTimeout
    /\ now - LastStored(o, Len(history)) < CacheTimeout

\* C9: in a sequential run, once a mark of o with
\* requires_full_invalidation=True has run, the record of o has the flag set
\* after every later mark of o, until clear_dirty_flags(o) runs.
StickyFlag ==
    \A o \in Organizers : \A i \in 1..(Len(history) - 1) :
        (MarkedFullAt(o, i) /\ JustMarked(o) /\ has_key(cache, DirtyKey(o)))
            => cache[DirtyKey(o)].value.requires_full_invalidation

\* C9, with the timeout of the record: once a mark of o with
\* requires_full_invalidation=True has run, cache.get returns the record of o
\* with the flag set, after every later mark of o too, until
\* clear_dirty_flags(o) runs or the record expires, an hour after the last
\* mark of o stored it.
StickyFlagUntilExpiry ==
    \A o \in Organizers : \A i \in 1..Len(history) :
        (MarkedFullAt(o, i) /\ KeptAlive(o, i)) => FlagSet(o)

\* C9 witness: the last call was a mark of o with the flag False, which read
\* the record half an hour or more after a mark of o with the flag True had
\* stored it, and returned later still; the record has not expired and there
\* was no clear.
StickyFlagWitness ==
    \E o \in Organizers : \E i \in 1..Len(history) :
        /\ MarkedFullAt(o, i) /\ KeptAlive(o, i)
        /\ JustMarked(o)
        /\ ~history[Len(history)].requires_full_invalidation
        /\ history[Len(history)].read_at > history[i].stored_at
        /\ history[Len(history)].time > history[Len(history)].stored_at
        /\ Len(cache[DirtyKey(o)].value.changes) >= 2

(***************************************************************************)
(* Concurrent use of the dirty set (SpecWorkers): each worker runs one     *)
(* call at a time, and the cache operations of different workers           *)
(* interleave; the calls of a run take place within one step of the clock. *)
(***************************************************************************)
NextWorkers ==
    \/ \E w \in Workers, o \in Organizers, ct \in CacheTypes, full \in BOOLEAN :
          MarkGetData(w, o, ct, full)
    \/ \E w \in Workers : MarkSetData(w)
    \/ \E w \in Workers : MarkGetList(w)
    \/ \E w \in Workers : MarkSetList(w)
    \/ \E w \in Workers, o \in Organizers : ClearDelete(w, o)
    \/ \E w \in Workers : ClearGetList(w)
    \/ \E w \in Workers : ClearSetList(w)

SpecWorkers == InitDirty /\ [][NextWorkers]_vars

AllReturned == Running = {}
NeverCleared(o) ==
    /\ \A i \in 1..Len(history) :
          ~(history[i].op = "clear" /\ history[i].organizer_id = o)
    /\ \A w \in Workers :
          ~(calls[w].op = "clear" /\ calls[w].organizer_id = o)
ReturnedMarkFull(o) ==
    \E i \in 1..Len(history) :
        IsMarkOf(o, i) /\ history[i].requires_full_invalidation

\* C10: when the mark_cache_dirty calls of an organizer interleave and at
\* least one of them passes requires_full_invalidation=True, then once all
\* calls have returned, and no clear_dirty_flags of the organizer has been
\* started, the record of the organizer has the flag set.
FlagSurvivesInterleaving ==
    \A o \in Organizers :
        (AllReturned /\ ReturnedMarkFull(o) /\ NeverCleared(o)) => FlagSet(o)

ReturnedMark(o) ==
    \E i \in 1..Len(history) :
        history[i].op = "mark" /\ history[i].organizer_id = o
NoClearStarted == \A o \in Organizers : NeverCleared(o)

\* C11: once all the mark_cache_dirty calls of the workers have returned
\* and no clear_dirty_flags has been started, get_dirty_organizers returns
\* every organizer that was marked.
DirtyListComplete ==
    (AllReturned /\ NoClearStarted) =>
        \A o \in Organizers :
            ReturnedMark(o) => o \in get_dirty_organizers(cache)

(***************************************************************************)
(* Cache keys and invalidation patterns (SpecKeys).  Keys are strings,     *)
(* built as the code builds them.                                          *)
(***************************************************************************)
Digits == <<"0", "1", "2", "3", "4", "5", "6", "7", "8", "9">>

\* str(n) of a non-negative int
RECURSIVE str(_)
str(n) == IF n < 10 THEN Digits[n + 1] ELSE str(n \div 10) \o Digits[(n % 10) + 1]

\* date.isoformat(); day 0 is 2025-01-06 and the days stay inside January
FirstDayOfMonth == 6
isoformat(d) ==
    "2025-01-" \o (IF FirstDayOfMonth + d < 10 THEN "0" ELSE "")
               \o str(FirstDayOfMonth + d)

RECURSIVE join(_, _)
join(sep, parts) ==
    IF Len(parts) = 0 THEN ""
    ELSE IF Len(parts) = 1 THEN parts[1]
    ELSE parts[1] \o sep \o join(sep, Tail(parts))

get_cache_key_for_availability(organizer_id, event_type_id, start_date, end_date, invitee_timezone, attendee_count) ==
    join(":", <<"availability", organizer_id, event_type_id,
                isoformat(start_date), isoformat(end_date),
                invitee_timezone, str(attendee_count)>>)

\* an Optional argument
NotGiven == [given |-> FALSE]
Given(v) == [given |-> TRUE, value |-> v]
\* truth value of Optional[str]: None and "" are false
TruthyStr(x) == x.given /\ x.value # ""
\* truth value of Optional[Tuple[date, date]]: a 2-tuple is true
TruthyRange(x) == x.given

RECURSIVE DayPatterns(_, _, _)
DayPatterns(prefix, current, end_date) ==
    IF current <= end_date
    THEN <<prefix \o isoformat(current) \o "*">>
         \o DayPatterns(prefix, current + 1, end_date)
    ELSE <<>>

\* a planner whose day loop stops one day early
generate_cache_key_patterns_short(organizer_id, event_type_id, date_range) ==
    IF TruthyStr(event_type_id) /\ TruthyRange(date_range)
    THEN DayPatterns("availability:" \o organizer_id \o ":"
                         \o event_type_id.value \o ":",
                     date_range.value[1], date_range.value[2] - 1)
    ELSE IF TruthyStr(event_type_id)
    THEN <<"availability:" \o organizer_id \o ":" \o event_type_id.value \o ":*">>
    ELSE IF TruthyRange(date_range)
    THEN DayPatterns("availability:" \o organizer_id \o ":*:",
                     date_range.value[1], date_range.value[2] - 1)
    ELSE <<"availability:" \o organizer_id \o ":*">>

generate_cache_key_patterns_for_invalidation(organizer_id, event_type_id, date_range) ==
    IF TruthyStr(event_type_id) /\ TruthyRange(date_range)
    THEN DayPatterns("availability:" \o organizer_id \o ":"
                         \o event_type_id.value \o ":",
                     date_range.value[1], date_range.value[2])
    ELSE IF TruthyStr(event_type_id)
    THEN <<"availability:" \o organizer_id \o ":" \o event_type_id.value \o ":*">>
    ELSE IF TruthyRange(date_range)
    THEN DayPatterns("availability:" \o organizer_id \o ":*:",
                     date_range.value[1], date_range.value[2])
    ELSE <<"availability:" \o organizer_id \o ":*">>

KeyOrganizers == {"o1", "o1:e1"}
KeyEventTypes == {"e1", "e1:e1"}
KeyTimezones == {"UTC", "Asia/Tokyo"}
KeyDates == {0, 1}
KeyAttendeeCounts == {1, 12}
KeyInputs ==
    [organizer_id : KeyOrganizers, event_type_id : KeyEventTypes,
     start_date : KeyDates, end_date : KeyDates,
     invitee_timezone : KeyTimezones, attendee_count : KeyAttendeeCounts]
KeyOf(k) ==
    get_cache_key_for_availability(k.organizer_id, k.event_type_id,
                                   k.start_date, k.end_date,
                                   k.invitee_timezone, k.attendee_count)

\* the key of two inputs is computed
GetCacheKeys(a, b) ==
    /\ request = NoRequest
    /\ request' = [op |-> "get_cache_key_for_availability", a |-> a, b |-> b]
    /\ response' = [a |-> KeyOf(a), b |-> KeyOf(b)]
    /\ UNCHANGED <<event_type, buffer_settings, profile>>
    /\ UNCHANGED dbVars /\ UNCHANGED loopVars /\ UNCHANGED cacheVars /\ UNCHANGED reqVars

PatternEventTypes == {NotGiven} \cup {Given(e) : e \in {"e1", "e2"}}
PatternRanges == {NotGiven} \cup {Given(<<s, t>>) : s \in Dates, t \in Dates}

GeneratePatterns(organizer_id, event_type_id, date_range) ==
    /\ request = NoRequest
    /\ request' = [op |-> "generate_cache_key_patterns_for_invalidation",
                   organizer_id |-> organizer_id,
                   event_type_id |-> event_type_id,
                   date_range |-> date_range]
    /\ response' = generate_cache_key_patterns_for_invalidation(
                       organizer_id, event_type_id, date_range)
    /\ UNCHANGED <<event_type, buffer_settings, profile>>
    /\ UNCHANGED dbVars /\ UNCHANGED loopVars /\ UNCHANGED cacheVars /\ UNCHANGED reqVars

NextKeys ==
    \/ \E a \in KeyInputs, b \in KeyInputs : GetCacheKeys(a, b)
    \/ \E o \in Organizers, e \in PatternEventTypes, r \in PatternRanges :
          GeneratePatterns(o, e, r)

SpecKeys == InitDirty /\ [][NextKeys]_vars

KeysComputed ==
    request # NoRequest /\ request.op = "get_cache_key_for_availability"
PatternsComputed ==
    request # NoRequest
    /\ request.op = "generate_cache_key_patterns_for_invalidation"

\* C12: two inputs of get_cache_key_for_availability that differ in at least
\* one field get different keys (equal inputs get the same key).
KeyInjective ==
    KeysComputed =>
        /\ (request.a = request.b => response.a = response.b)
        /\ (request.a # request.b => response.a # response.b)

\* the days s..t of a range, none when s > t
DaysOf(r) == {d \in Dates : r[1] <= d /\ d <= r[2]}
\* the patterns the planner is to return for each day of a range
PerDay(prefix, r) ==
    /\ Len(response) = Cardinality(DaysOf(r))
    /\ \A d \in DaysOf(r) :
          response[d - r[1] + 1] = prefix \o isoformat(d) \o "*"

\* C13: the planner returns one pattern availability:{o}:{e}:{d}* per day of
\* the range for (event type, range), the single availability:{o}:{e}:* for an
\* event type alone, one availability:{o}:*:{d}* per day for a range alone,
\* and the single availability:{o}:* with neither.
PatternPlanner ==
    PatternsComputed =>
        LET o == request.organizer_id
            e == request.event_type_id
            r == request.date_range
        IN  CASE e.given /\ r.given ->
                   PerDay("availability:" \o o \o ":" \o e.value \o ":", r.value)
              [] e.given /\ ~r.given ->
                   response = <<"availability:" \o o \o ":" \o e.value \o ":*">>
              [] ~e.given /\ r.given ->
                   PerDay("availability:" \o o \o ":*:", r.value)
              [] OTHER -> response = <<"availability:" \o o \o ":*">>

\* C13 witness: an event type and a range of more than one day were planned.
PatternPlannerWitness ==
    /\ PatternsComputed
    /\ request.event_type_id.given /\ request.date_range.given
    /\ request.date_range.value[1] < request.date_range.value[2]
    /\ Len(response) >= 2

(***************************************************************************)
(* Writes of availability rules through the serializer (SpecWrite):        *)
(* creates, and full or partial updates of a stored rule.                  *)
(***************************************************************************)
WriteRules ==
    {Rule(0, HM(9, 0), HM(10, 0), {}, TRUE),
     Rule(0, HM(10, 30), HM(11, 0), {}, TRUE)}

RulePatches ==
    {[end_time |-> HM(10, 30)],
     [is_active |-> FALSE],
     [day_of_week |-> 0, start_time |-> HM(9, 0), end_time |-> HM(10, 0)]}

NextWrite ==
    \/ \E r \in WriteRules : CreateAvailabilityRule(r)
    \/ \E r \in rules, attrs \in RulePatches : LoadAvailabilityRule(r, attrs)
    \/ \E w \in InFlight("rule", "loaded") : UpdateAvailabilityRule(w)
    \/ \E w \in InFlight("rule", "validated") : SaveAvailabilityRule(w)
    \/ \E r \in rules : DeleteAvailabilityRule(r)

SpecWrite == Init /\ [][NextWrite]_vars

\* C14: no two active rules of one day_of_week overlap or touch under the
\* adjacency-inclusive overlap check, after any accepted creates and updates,
\* requests in flight at the same time included.
RulesNeverOverlap ==
    \A r1 \in rules, r2 \in rules :
        (r1 # r2 /\ r1.is_active /\ r2.is_active
         /\ r1.day_of_week = r2.day_of_week)
        => ~are_time_intervals_overlapping(r1.start_time, r1.end_time,
                                           r2.start_time, r2.end_time, TRUE)

(***************************************************************************)
(* Writes of one-time blocks (SpecBlocked): the API creates and updates    *)
(* BlockedTime rows through BlockedTimeSerializer; a calendar sync worker  *)
(* creates rows with a synced source.                                      *)
(***************************************************************************)
Sources == {"manual", "google_calendar", "outlook_calendar"}

BlockedTime(id, start, end, source, active) ==
    [id |-> id, start_datetime |-> start, end_datetime |-> end,
     source |-> source, is_active |-> active]

\* serializers.py:165-180; instance is {} on create, {row} on update
BlockedTimeValid(attrs, instance) ==
    LET start_datetime == Get(attrs, "start_datetime")
        end_datetime == Get(attrs, "end_datetime")
        source == GetOr(attrs, "source", "manual")
    IN  /\ ~(start_datetime # None /\ end_datetime # None
             /\ start_datetime >= end_datetime)
        /\ ~(source # "manual" /\ instance = {})
        /\ \A inst \in instance :
              ~(inst.source # "manual" /\ source # inst.source)

BlockWindows == {<<Combine(0, HM(9, 0)), Combine(0, HM(10, 0))>>}
BlockedTimeCreates ==
    {[start_datetime |-> w[1], end_datetime |-> w[2]] : w \in BlockWindows}
    \cup {[start_datetime |-> w[1], end_datetime |-> w[2], source |-> src] :
            w \in BlockWindows, src \in Sources}
BlockedTimePatches ==
    {[is_active |-> FALSE]} \cup {[source |-> src] : src \in Sources}

\* a synced row written by the calendar sync worker, not by the serializer
SyncBlockedTime(w, source) ==
    /\ next_id.blocked + PendingCreates("blocked") <= MaxBlockedTimes
    /\ source # "manual"
    /\ Commit
    /\ blocked_times' = blocked_times \cup
          {BlockedTime(next_id.blocked, w[1], w[2], source, TRUE)}
    /\ next_id' = [next_id EXCEPT !.blocked = @ + 1]
    /\ request' = [op |-> "sync"]
    /\ response' = NoResponse
    /\ UNCHANGED <<rules, overrides, recurring_blocks, bookings, in_flight,
                   event_type, buffer_settings, profile>>
    /\ UNCHANGED loopVars /\ UNCHANGED cacheVars

\* validate() of a create (serializers.py:165-180) and its answer; the row
\* is written by the save that follows
CreateBlockedTime(attrs) ==
    /\ BagCardinality(in_flight) < MaxPending
    /\ next_id.blocked + PendingCreates("blocked") <= MaxBlockedTimes
    /\ request' = [op |-> "create", attrs |-> attrs, instance |-> {}]
    /\ response' = [accepted |-> BlockedTimeValid(attrs, {})]
    /\ IF BlockedTimeValid(attrs, {})
       THEN Enter(Write("blocked", attrs, {}, "validated"))
       ELSE UNCHANGED in_flight
    /\ UNCHANGED <<interleaved, event_type, buffer_settings, profile>>
    /\ UNCHANGED dbVars /\ UNCHANGED loopVars /\ UNCHANGED cacheVars

\* the update view loads the row the request names
LoadBlockedTime(b, attrs) ==
    /\ BagCardinality(in_flight) < MaxPending
    /\ b \in blocked_times
    /\ Enter(Write("blocked", attrs, {b}, "loaded"))
    /\ UNCHANGED interleaved /\ UNCHANGED dbVars /\ UNCHANGED queryVars
    /\ UNCHANGED loopVars /\ UNCHANGED cacheVars

\* validate() of an update (serializers.py:165-180) and its answer: the
\* source that was sent is compared with the source of the row as loaded
UpdateBlockedTime(w) ==
    /\ w \in InFlight("blocked", "loaded")
    /\ request' = [op |-> "update", attrs |-> w.attrs, instance |-> w.instance]
    /\ response' = [accepted |-> BlockedTimeValid(w.attrs, w.instance)]
    /\ IF BlockedTimeValid(w.attrs, w.instance) THEN Advance(w) ELSE Leave(w)
    /\ UNCHANGED <<interleaved, event_type, buffer_settings, profile>>
    /\ UNCHANGED dbVars /\ UNCHANGED loopVars /\ UNCHANGED cacheVars

\* save() of a validated create or update
SaveBlockedTime(w) ==
    /\ w \in InFlight("blocked", "validated")
    /\ Commit
    /\ blocked_times' =
          IF w.instance = {}
          THEN blocked_times \cup
                 {BlockedTime(next_id.blocked,
                              w.attrs.start_datetime, w.attrs.end_datetime,
                              GetOr(w.attrs, "source", "manual"), TRUE)}
          ELSE ExcludeInstance(blocked_times, w.instance)
                  \cup {Updated(inst, w.attrs) : inst \in w.instance}
    /\ next_id' = IF w.instance = {}
                  THEN [next_id EXCEPT !.blocked = @ + 1] ELSE next_id
    /\ Leave(w)
    /\ UNCHANGED <<rules, overrides, recurring_blocks, bookings>>
    /\ UNCHANGED queryVars /\ UNCHANGED loopVars /\ UNCHANGED cacheVars

NextBlocked ==
    \/ \E w \in BlockWindows, src \in Sources : SyncBlockedTime(w, src)
    \/ \E attrs \in BlockedTimeCreates : CreateBlockedTime(attrs)
    \/ \E b \in blocked_times, attrs \in BlockedTimePatches :
          LoadBlockedTime(b, attrs)
    \/ \E w \in InFlight("blocked", "loaded") : UpdateBlockedTime(w)
    \/ \E w \in InFlight("blocked", "validated") : SaveBlockedTime(w)

SpecBlocked == Init /\ [][NextBlocked]_vars

ApiCall(op) == request # NoRequest /\ request.op = op

\* C15: an accepted create has source manual; an accepted update leaves the
\* source of the stored record as it was; an update that does not change the
\* source is accepted.
SourceProtected ==
    /\ (ApiCall("create") /\ response.accepted)
          => GetOr(request.attrs, "source", "manual") = "manual"
    /\ ApiCall("update")
          => \A inst \in request.instance :
                /\ response.accepted
                      => GetOr(request.attrs, "source", inst.source) = inst.source
                /\ GetOr(request.attrs, "source", inst.source) = inst.source
                      => response.accepted

(***************************************************************************)
(* The overlap check as a function of its endpoints (SpecOverlap).         *)
(***************************************************************************)
OverlapTimes == {HM(0, 0), HM(9, 0), HM(9, 0) + 30, HM(10, 0), HM(23, 30)}

CheckOverlap(start1, end1, start2, end2, allow_adjacency) ==
    /\ request = NoRequest
    /\ request' = [op |-> "are_time_intervals_overlapping",
                   start1 |-> start1, end1 |-> end1,
                   start2 |-> start2, end2 |-> end2,
                   allow_adjacency |-> allow_adjacency]
    /\ response' = are_time_intervals_overlapping(start1, end1, start2, end2,
                                                  allow_adjacency)
    /\ UNCHANGED <<event_type, buffer_settings, profile>>
    /\ UNCHANGED dbVars /\ UNCHANGED loopVars /\ UNCHANGED cacheVars /\ UNCHANGED reqVars

NextOverlap ==
    \E s1 \in OverlapTimes, e1 \in OverlapTimes, s2 \in OverlapTimes,
       e2 \in OverlapTimes, adj \in BOOLEAN : CheckOverlap(s1, e1, s2, e2, adj)

SpecOverlap == Init /\ [][NextOverlap]_vars

\* the reference of the data model: the end moves to the next day whenever
\* end <= start
ReferenceOverlap(start1, end1, start2, end2, allow_adjacency) ==
    LET a_start == time_to_minutes(start1)
        b_start == time_to_minutes(start2)
        a_end == IF time_to_minutes(end1) <= a_start
                 THEN time_to_minutes(end1) + MinutesPerDay
                 ELSE time_to_minutes(end1)
        b_end == IF time_to_minutes(end2) <= b_start
                 THEN time_to_minutes(end2) + MinutesPerDay
                 ELSE time_to_minutes(end2)
    IN  IF allow_adjacency
        THEN a_start <= b_end /\ a_end >= b_start
        ELSE a_start < b_end /\ a_end > b_start

\* C16: are_time_intervals_overlapping equals the reference that adds 1440
\* minutes to an end whenever end <= start, end == start included.
OverlapMatchesReference ==
    ApiCall("are_time_intervals_overlapping") =>
        response = ReferenceOverlap(request.start1, request.end1,
                                    request.start2, request.end2,
                                    request.allow_adjacency)

(***************************************************************************)
(* One row inserted while calculate_available_slots runs (SpecObserve).    *)
(***************************************************************************)
InitObserve ==
    /\ InitCommon
    /\ rules = {Row(1, Rule(0, HM(9, 0), HM(10, 0), {}, TRUE)),
                Row(2, Rule(1, HM(9, 0), HM(10, 0), {}, TRUE))}
    /\ overrides = <<>>
    /\ event_type = DefaultEventType
    /\ buffer_settings = DefaultBufferTime
    /\ profile = DefaultProfile
    /\ InitIds

ObservedBlocks ==
    {[start_datetime |-> Combine(d, HM(9, 0)),
      end_datetime |-> Combine(d, HM(10, 0))] : d \in Dates}
    \cup {[start_datetime |-> Combine(0, HM(9, 30)),
           end_datetime |-> Combine(0, HM(10, 0))]}

ObservedBookings ==
    {Booking(EventTypeId, "confirmed", Combine(0, HM(9, 0)),
             Combine(0, HM(10, 0)), 1)}

\* another request commits one BlockedTime row
InsertBlockedTime(b) ==
    /\ response = NoResponse
    /\ next_id.blocked <= MaxBlockedTimes
    /\ Commit
    /\ blocked_times' = blocked_times \cup
          {BlockedTime(next_id.blocked, b.start_datetime, b.end_datetime,
                       "manual", TRUE)}
    /\ next_id' = [next_id EXCEPT !.blocked = @ + 1]
    /\ UNCHANGED <<rules, overrides, recurring_blocks, bookings, in_flight>>
    /\ UNCHANGED queryVars /\ UNCHANGED loopVars /\ UNCHANGED cacheVars

NextObserve ==
    \/ \E req \in QueryRequests : req.start_date <= req.end_date /\ Calculate(req)
    \/ ReadOverrides
    \/ ReadRules
    \/ CheckBlockedTime
    \/ CheckRecurring
    \/ CheckBookings
    \/ Return
    \/ \E b \in ObservedBlocks : InsertBlockedTime(b)
    \/ \E b \in ObservedBookings : InsertBooking(b)

SpecObserve == InitObserve /\ [][NextObserve]_vars

\* what the call returns when no block and no booking exists: every
\* potential slot of the requested dates
RECURSIVE Unfiltered(_, _)
Unfiltered(first, last) ==
    IF first > last THEN <<>>
    ELSE PotentialSlots(IntervalsOf(first), event_type.duration,
                        EffectiveSlotInterval(event_type, buffer_settings))
            \o Unfiltered(first + 1, last)
AnswerBefore ==
    enhance_slots_with_dst_info(Unfiltered(request.start_date, request.end_date),
                                request.invitee_timezone)
AnswerAfter ==
    calculate_available_slots(event_type, buffer_settings, profile, request).slots

\* C17: when one BlockedTime or Booking row is inserted while the call runs,
\* and no other, the slots returned are those of the tables before the
\* insert or those of the tables after it.
ConsistentObservation ==
    (pc = "done" /\ Cardinality(blocked_times) + Cardinality(bookings) <= 1)
    => (response.slots = AnswerBefore \/ response.slots = AnswerAfter)

(***************************************************************************)
(* The slot enumerator as a function of its arguments (SpecSlots).         *)
(***************************************************************************)
SlotIntervalStarts == {Combine(0, HM(9, 0)), Combine(0, HM(9, 0)) + 30,
                       Combine(0, HM(23, 30))}
SlotIntervalEnds == {Combine(0, HM(9, 0)), Combine(0, HM(10, 0)),
                     Combine(0, HM(11, 0)), Combine(0, HM(10, 15)),
                     Combine(1, HM(0, 30))}
SlotDurations == {15, 30, 45, 60}
SlotStrides == {15, 30, 60}

GenerateSlots(interval_start, interval_end, duration_minutes, slot_interval_minutes) ==
    /\ request = NoRequest
    /\ request' = [op |-> "_generate_slots_from_interval",
                   interval_start |-> interval_start,
                   interval_end |-> interval_end,
                   duration_minutes |-> duration_minutes,
                   slot_interval_minutes |-> slot_interval_minutes]
    /\ response' = generate_slots_from_interval(interval_start, interval_end,
                       duration_minutes, slot_interval_minutes)
    /\ UNCHANGED <<event_type, buffer_settings, profile>>
    /\ UNCHANGED dbVars /\ UNCHANGED loopVars /\ UNCHANGED cacheVars /\ UNCHANGED reqVars

NextSlots ==
    \E s \in SlotIntervalStarts, e \in SlotIntervalEnds,
       d \in SlotDurations, k \in SlotStrides : GenerateSlots(s, e, d, k)

SpecSlots == Init /\ [][NextSlots]_vars

\* the strides k >= 0 whose slot fits: i_start + k*K + D <= i_end
FittingStrides(req) ==
    {k \in 0..(SecondsPerDay \div SecondsPerMinute) :
        req.interval_start + k * req.slot_interval_minutes * SecondsPerMinute
            + req.duration_minutes * SecondsPerMinute <= req.interval_end}

\* C18: for D > 0 and K > 0, _generate_slots_from_interval returns exactly
\* the slots starting at i_start + k*K for every k >= 0 with
\* i_start + k*K + D <= i_end, in increasing k, each with end = start + D and
\* duration_minutes = D.
SlotsExact ==
    ApiCall("_generate_slots_from_interval") =>
        /\ Len(response) = Cardinality(FittingStrides(request))
        /\ \A k \in FittingStrides(request) :
              /\ k + 1 <= Len(response)
              /\ response[k + 1] =
                    [start_time |-> request.interval_start
                        + k * request.slot_interval_minutes * SecondsPerMinute,
                     end_time |-> request.interval_start
                        + k * request.slot_interval_minutes * SecondsPerMinute
                        + request.duration_minutes * SecondsPerMinute,
                     duration_minutes |-> request.duration_minutes]

\* C18 witness: several slots were emitted and the last one ends exactly at
\* the end of the interval.
SlotsExactWitness ==
    /\ ApiCall("_generate_slots_from_interval")
    /\ Len(response) >= 2
    /\ response[Len(response)].end_time = request.interval_end

\* C19: for every date the interval list of _get_daily_available_intervals
\* is sorted by start and each next start is strictly after the previous
\* end, for intervals from rules and from date overrides.
ResolverMerged ==
    \A d \in Dates :
        \A i \in 1..(Len(IntervalsOf(d)) - 1) :
            IntervalsOf(d)[i + 1][1] > IntervalsOf(d)[i][2]

\* the same for the dates that take their intervals from the weekly rules
ResolverMergedFromRules ==
    \A d \in Dates :
        ApplicableOverrides(event_type, d) = <<>> =>
            \A i \in 1..(Len(IntervalsOf(d)) - 1) :
                IntervalsOf(d)[i + 1][1] > IntervalsOf(d)[i][2]

(***************************************************************************)
(* Recurring blocks (SpecRecur): recurring blocks are written through      *)
(* their serializer while ranges are queried.                              *)
(***************************************************************************)
RecurringBlockedTime(dow, start, end, start_date, end_date, active) ==
    [day_of_week |-> dow, start_time |-> start, end_time |-> end,
     start_date |-> start_date, end_date |-> end_date, is_active |-> active]

\* serializers.py:105-150 on the fields that were sent; instance is {} on a
\* create
RecurringBlockedTimeValid(attrs, instance) ==
    LET start_time == Get(attrs, "start_time")
        end_time == Get(attrs, "end_time")
        start_date == Get(attrs, "start_date")
        end_date == Get(attrs, "end_date")
        day_of_week == Get(attrs, "day_of_week")
    IN  /\ ~(start_time # None /\ end_time # None /\ start_time = end_time)
        /\ ~(start_date # None /\ end_date # None /\ start_date > end_date)
        /\ (day_of_week # None /\ start_time # None /\ end_time # None) =>
              \A existing_block \in ExcludeInstance(recurring_blocks, instance) :
                 (existing_block.day_of_week = day_of_week
                  /\ existing_block.is_active)
                 => ~are_time_intervals_overlapping(
                         start_time, end_time,
                         existing_block.start_time, existing_block.end_time,
                         TRUE)

RecurringUniverse ==
    {RecurringBlockedTime(0, HM(23, 0), HM(1, 0), None, None, TRUE),
     RecurringBlockedTime(0, HM(9, 0), HM(9, 30), None, None, TRUE),
     RecurringBlockedTime(0, HM(9, 30), HM(10, 0), 1, None, TRUE),
     RecurringBlockedTime(0, HM(9, 30), HM(10, 0), None, None, FALSE)}

\* validate() of a create (serializers.py:105-150); the row is written by
\* the save that follows
CreateRecurringBlockedTime(attrs) ==
    /\ response = NoResponse
    /\ BagCardinality(in_flight) < MaxPending
    /\ next_id.recurring + PendingCreates("recurring") <= MaxRecurring
    /\ RecurringBlockedTimeValid(attrs, {})
    /\ Enter(Write("recurring", attrs, {}, "validated"))
    /\ UNCHANGED interleaved /\ UNCHANGED dbVars /\ UNCHANGED queryVars
    /\ UNCHANGED loopVars /\ UNCHANGED cacheVars

RecurringPatches ==
    {[day_of_week |-> 0, start_time |-> HM(9, 0), end_time |-> HM(10, 0)],
     [is_active |-> FALSE]}

\* the update view loads the row the request names
LoadRecurringBlockedTime(b, attrs) ==
    /\ response = NoResponse
    /\ BagCardinality(in_flight) < MaxPending
    /\ b \in recurring_blocks
    /\ Enter(Write("recurring", attrs, {b}, "loaded"))
    /\ UNCHANGED interleaved /\ UNCHANGED dbVars /\ UNCHANGED queryVars
    /\ UNCHANGED loopVars /\ UNCHANGED cacheVars

\* validate() of a full or partial update (serializers.py:105-150) on the
\* table as it is now, the loaded row excluded by its id
UpdateRecurringBlockedTime(w) ==
    /\ response = NoResponse
    /\ w \in InFlight("recurring", "loaded")
    /\ IF RecurringBlockedTimeValid(w.attrs, w.instance)
       THEN Advance(w) ELSE Leave(w)
    /\ UNCHANGED interleaved /\ UNCHANGED dbVars /\ UNCHANGED queryVars
    /\ UNCHANGED loopVars /\ UNCHANGED cacheVars

\* save() of a validated create or update of a recurring block
SaveRecurringBlockedTime(w) ==
    /\ response = NoResponse
    /\ w \in InFlight("recurring", "validated")
    /\ Commit
    /\ recurring_blocks' =
          IF w.instance = {}
          THEN recurring_blocks \cup {Row(next_id.recurring, w.attrs)}
          ELSE ExcludeInstance(recurring_blocks, w.instance)
                  \cup {Updated(inst, w.attrs) : inst \in w.instance}
    /\ next_id' = IF w.instance = {}
                  THEN [next_id EXCEPT !.recurring = @ + 1] ELSE next_id
    /\ Leave(w)
    /\ UNCHANGED <<rules, overrides, blocked_times, bookings>>
    /\ UNCHANGED queryVars /\ UNCHANGED loopVars /\ UNCHANGED cacheVars

InitRecur ==
    /\ InitCommon
    /\ rules = {Row(1, Rule(0, HM(9, 0), HM(10, 0), {}, TRUE)),
                Row(2, Rule(1, HM(0, 0), HM(1, 0), {}, TRUE))}
    /\ overrides = <<>>
    /\ event_type = DefaultEventType
    /\ buffer_settings = DefaultBufferTime
    /\ profile = DefaultProfile
    /\ InitIds

NextRecur ==
    \/ \E b \in RecurringUniverse : CreateRecurringBlockedTime(b)
    \/ \E b \in recurring_blocks, attrs \in RecurringPatches :
          LoadRecurringBlockedTime(b, attrs)
    \/ \E w \in InFlight("recurring", "loaded") : UpdateRecurringBlockedTime(w)
    \/ \E w \in InFlight("recurring", "validated") : SaveRecurringBlockedTime(w)
    \/ \E req \in QueryRequests : req.start_date <= req.end_date /\ Calculate(req)
    \/ ReadOverrides
    \/ ReadRules
    \/ CheckBlockedTime
    \/ CheckRecurring
    \/ CheckBookings
    \/ Return

SpecRecur == InitRecur /\ [][NextRecur]_vars

\* the dates on which an occurrence overlapping a requested date can begin
OccurrenceDates == (0 - 1)..MaxDay

\* C20: no returned slot strictly overlaps an occurrence window of an active
\* recurring block; the occurrence of date d (weekday of the block, and
\* applies_to_date(d)) is [d + start, d + end], the end on d+1 when the block
\* spans midnight (for a call during which nothing was committed).
NoSlotInRecurringBlock ==
    (Answered /\ Quiet) =>
        \A i \in 1..Len(response.slots) :
            \A block \in recurring_blocks :
                \A d \in OccurrenceDates :
                    (/\ block.is_active
                     /\ block.day_of_week = Weekday(d)
                     /\ applies_to_date(block, d))
                    => LET occurrence ==
                               RowInterval(block, d, OrganizerTimezone(profile))
                       IN  ~(occurrence[1] < response.slots[i].end_time
                             /\ occurrence[2] > response.slots[i].start_time)

\* the same for the occurrences that begin on the date the slot was
\* generated for
NoSlotInSameDayBlock ==
    (Answered /\ Quiet) =>
        \A d \in RequestedDates :
            \A i \in 1..Len(SlotsGeneratedFor(d, request.attendee_count)) :
                \A block \in recurring_blocks :
                    (/\ block.is_active
                     /\ block.day_of_week = Weekday(d)
                     /\ applies_to_date(block, d))
                    => LET occurrence ==
                               RowInterval(block, d, OrganizerTimezone(profile))
                           slot == SlotsGeneratedFor(d, request.attendee_count)[i]
                       IN  ~(occurrence[1] < slot.end_time
                             /\ occurrence[2] > slot.start_time)

(***************************************************************************)
(* Invalidation of cached answers by pattern (SpecInvalidate): a cached    *)
(* key and the patterns planned for a change are matched as globs.         *)
(***************************************************************************)
\* pattern-delete of the cache interface: * matches any run of characters,
\* every other character matches itself
RECURSIVE glob_match(_, _)
glob_match(key, pattern) ==
    IF pattern = "" THEN key = ""
    ELSE IF Head(pattern) = "*"
    THEN \/ glob_match(key, Tail(pattern))
         \/ (key # "" /\ glob_match(Tail(key), pattern))
    ELSE /\ key # ""
         /\ Head(key) = Head(pattern)
         /\ glob_match(Tail(key), Tail(pattern))

InvalidateEventTypes == {"e1", "e2"}
CachedInputs ==
    {k \in [organizer_id : Organizers, event_type_id : InvalidateEventTypes,
            start_date : Dates, end_date : Dates,
            invitee_timezone : {"UTC"}, attendee_count : {1}] :
        k.start_date <= k.end_date}
ChangedRanges == {<<s, t>> : s \in Dates, t \in Dates}

\* the key under which an answer was cached, and the patterns planned for a
\* change of event type e of organizer o on the days of date_range
PlanInvalidation(cached, organizer_id, event_type_id, date_range) ==
    /\ request = NoRequest
    /\ date_range[1] <= date_range[2]
    /\ request' = [op |-> "invalidate", cached |-> cached,
                   organizer_id |-> organizer_id,
                   event_type_id |-> event_type_id,
                   date_range |-> date_range]
    /\ response' =
          [key |-> KeyOf(cached),
           patterns |-> generate_cache_key_patterns_for_invalidation(
                            organizer_id, Given(event_type_id),
                            Given(date_range))]
    /\ UNCHANGED <<event_type, buffer_settings, profile>>
    /\ UNCHANGED dbVars /\ UNCHANGED loopVars /\ UNCHANGED cacheVars /\ UNCHANGED reqVars

NextInvalidate ==
    \E k \in CachedInputs, o \in Organizers, e \in InvalidateEventTypes,
       r \in ChangedRanges : PlanInvalidation(k, o, e, r)

SpecInvalidate == Init /\ [][NextInvalidate]_vars

\* the cached answer is for (o, e) and its dates contain a changed day
CoversChangedDay ==
    /\ request.cached.organizer_id = request.organizer_id
    /\ request.cached.event_type_id = request.event_type_id
    /\ \E d \in DaysOf(request.date_range) :
          request.cached.start_date <= d /\ d <= request.cached.end_date
MatchedByPattern ==
    \E i \in 1..Len(response.patterns) :
        glob_match(response.key, response.patterns[i])

\* C21: every cached key of (o, e) whose start_date..end_date contains a day
\* of the changed range is matched by one of the patterns planned for
\* (o, e, range), so it does not survive the pattern-delete.
InvalidationCovers ==
    (ApiCall("invalidate") /\ CoversChangedDay) => MatchedByPattern

\* the keys the patterns do reach: those whose start_date is a changed day
InvalidationCoversStartDay ==
    (ApiCall("invalidate")
     /\ request.cached.organizer_id = request.organizer_id
     /\ request.cached.event_type_id = request.event_type_id)
    => (MatchedByPattern <=> request.cached.start_date \in DaysOf(request.date_range))

====
